---- MODULE Spec2Model ----
(***************************************************************************)
(* A model of the licence risk engine of DVLA-Licence-Checker-API:         *)
(* LicenceCheckService.isLicenceValid, calculateRiskLevel and              *)
(* calculateNextCheckDate (src/src/services/licence-check.service.ts).     *)
(*                                                                         *)
(* Time is counted in whole days.  An instant is a day number (days since  *)
(* 1900-01-01); the system clock is the calendar date `clock`.             *)
(***************************************************************************)
EXTENDS Integers, Sequences, FiniteSets, TLC

VARIABLES
    clock,      \* the system clock: a calendar date [y, m, d]
    rec,        \* the DVLALicenceResponse under evaluation
    drv,        \* the Driver passed to calculateRiskLevel (<<>> when none)
    pc,         \* position of the evaluation
    valid,      \* result of isLicenceValid (line 74)
    out,        \* result of calculateRiskLevel (line 77)
    prev,       \* the assessment of the record before an endorsement was added
    due,        \* result of calculateNextCheckDate (line 133)
    drivers,    \* the drivers table: the row of the driver (<<>> when none)
    checks,     \* the licence_checks table: the saved LicenceCheck records
    calls,      \* the performLicenceCheck calls in progress, by call id
    time,       \* the system clock of the registry client, in seconds
    token,      \* DVLAService.accessToken and tokenExpiry
    enquiry,    \* the checkLicence call in progress
    bulk        \* the bulkCheck request in progress

\* the engine calls of one evaluation
engineVars == <<rec, drv, pc, valid, out, prev, due>>

\* performLicenceCheck as a process, with its tables
processVars == <<drivers, checks, calls>>

\* the registry client
clientVars == <<time, token, enquiry>>

vars == <<clock, engineVars, processVars, clientVars, bulk>>

(***************************************************************************)
(* Bounds of the model.                                                    *)
(***************************************************************************)
MaxDisq == 2
MaxEndorsements == 3
MaxCategories == 2

(***************************************************************************)
(* Date strings and JavaScript Date values.                                *)
(*                                                                         *)
(* A date field of the registry response is a string that may be missing.  *)
(* It is modelled as NoDate (undefined, null or ''), BadDate (a string     *)
(* that `new Date` cannot parse) or the day number the string denotes.     *)
(* `new Date(s)` never throws: for an unparseable string it returns an     *)
(* Invalid Date whose time value is NaN, and every comparison with NaN     *)
(* (<, >, <=) is false.                                                    *)
(***************************************************************************)
NoDate == -1
BadDate == -2
NaN == -3

\* if (x.someDate): a missing or empty string is falsy
Truthy(f) == f # NoDate

\* new Date(s).getTime()
newDate(f) == IF f = NoDate \/ f = BadDate THEN NaN ELSE f

\* a < b and a > b on Date values or numbers
Lt(a, b) == a # NaN /\ b # NaN /\ a < b
Gt(a, b) == Lt(b, a)
Le(a, b) == a # NaN /\ b # NaN /\ a <= b

\* an optional member: <<>> when absent, <<v>> when present
None == <<>>
Some(v) == <<v>>
\* x || []
OrEmpty(opt) == IF opt = None THEN <<>> ELSE opt[1]

(***************************************************************************)
(* The calendar (local time, whole days).                                  *)
(***************************************************************************)
IsLeap(y) == (y % 4 = 0 /\ y % 100 # 0) \/ y % 400 = 0

DaysInMonth(y, m) ==
    IF m = 2 THEN (IF IsLeap(y) THEN 29 ELSE 28)
    ELSE IF m \in {4, 6, 9, 11} THEN 30 ELSE 31

\* number of leap years in 1 .. y
LeapsUpTo(y) == (y \div 4) - (y \div 100) + (y \div 400)

RECURSIVE DaysBeforeMonth(_, _)
DaysBeforeMonth(y, m) ==
    IF m = 1 THEN 0 ELSE DaysBeforeMonth(y, m - 1) + DaysInMonth(y, m - 1)

\* Date.getTime() in days: days from 1900-01-01 to the calendar date
DayNumber(date) ==
    365 * (date.y - 1900) + (LeapsUpTo(date.y - 1) - LeapsUpTo(1899))
        + DaysBeforeMonth(date.y, date.m) + (date.d - 1)

\* new Date().getTime()
Now == DayNumber(clock)

(***************************************************************************)
(* isLicenceValid (lines 215-256).  The clock is read once per call.       *)
(***************************************************************************)
invalidStatusCodes == {"REVOKED", "SURRENDERED", "REFUSED", "DISQUALIFIED"}

\* mutant: a licence that expires today counted as expired
ExpiredNow_Inclusive(r, now) ==
    Truthy(r.expiryDate) /\ Le(newDate(r.expiryDate), now)

\* lines 217-229: new Date never throws, so the catch branch is dead code
ExpiredNow(r, now) ==
    Truthy(r.expiryDate) /\ Lt(newDate(r.expiryDate), now)

\* the filter callback of lines 239-248, on one disqualification's endDate
DisqActiveInValidity(endDate, now) ==
    IF ~Truthy(endDate) THEN TRUE
    ELSE Gt(newDate(endDate), now)

\* lines 238-253
HasActiveDisqInValidity(r, now) ==
    LET disqs == OrEmpty(r.disqualifications) IN
    \E i \in 1..Len(disqs) : DisqActiveInValidity(disqs[i], now)

isLicenceValid(r, now) ==
    IF ExpiredNow(r, now) THEN FALSE
    ELSE IF r.statusCode \in invalidStatusCodes THEN FALSE
    ELSE IF HasActiveDisqInValidity(r, now) THEN FALSE
    ELSE TRUE

(***************************************************************************)
(* calculateRiskLevel (lines 298-908).  Every rule group is an operator    *)
(* that returns its contribution: the score it adds and the factors and    *)
(* recommendations it pushes.  A factor or recommendation string is        *)
(* modelled by the kind of message and the values interpolated into it.    *)
(***************************************************************************)
F(kind, nums, names) == [kind |-> kind, nums |-> nums, names |-> names]

Contribution(s, f, r) == [s |-> s, f |-> f, r |-> r]
Nothing == Contribution(0, <<>>, <<>>)

\* score += a.s; factors.push(...a.f); recommendations.push(...a.r), then b
Then(a, b) == Contribution(a.s + b.s, a.f \o b.f, a.r \o b.r)

\* lines 303-308
BaseInvalidity(r, now) ==
    IF ~isLicenceValid(r, now)
    THEN Contribution(50, <<F("invalid", <<>>, <<>>)>>,
                          <<F("investigate", <<>>, <<>>)>>)
    ELSE Nothing

\* lines 310-323
PenaltyPoints(r) ==
    LET points == r.penaltyPoints IN
    IF points >= 9
    THEN Contribution(30, <<F("points-high", <<points>>, <<>>)>>,
                          <<F("training", <<>>, <<>>)>>)
    ELSE IF points >= 6
    THEN Contribution(15, <<F("points-medium", <<points>>, <<>>)>>,
                          <<F("monitor", <<>>, <<>>)>>)
    ELSE IF points >= 3
    THEN Contribution(5, <<F("points-low", <<points>>, <<>>)>>, <<>>)
    ELSE Nothing

\* lines 327-329 and 745-747: N months of 30 days before now
MonthsAgo(n, now) == now - n * 30

\* number of endorsements of the list that satisfy P
CountIf(es, P(_)) == Cardinality({i \in 1..Len(es) : P(es[i])})

\* mutant: a conviction on the limit day taken into the newer bucket
RecencyBucket_Inclusive(e, now) ==
    LET convictionDate == newDate(e.dateOfConviction) IN
    IF Le(MonthsAgo(6, now), convictionDate) THEN 1
    ELSE IF Le(MonthsAgo(12, now), convictionDate) THEN 2
    ELSE IF Le(MonthsAgo(24, now), convictionDate) THEN 3
    ELSE 0

\* lines 336-354: the bucket of one endorsement (0 when none)
RecencyBucket(e, now) ==
    LET convictionDate == newDate(e.dateOfConviction) IN
    IF Gt(convictionDate, MonthsAgo(6, now)) THEN 1
    ELSE IF Gt(convictionDate, MonthsAgo(12, now)) THEN 2
    ELSE IF Gt(convictionDate, MonthsAgo(24, now)) THEN 3
    ELSE 0

\* lines 325-379
TimeWeighted(r, now) ==
    LET endorsements == OrEmpty(r.endorsements)
        InBucket1(e) == RecencyBucket(e, now) = 1
        InBucket2(e) == RecencyBucket(e, now) = 2
        InBucket3(e) == RecencyBucket(e, now) = 3
        veryRecentCount == CountIf(endorsements, InBucket1)
        recentCount == CountIf(endorsements, InBucket2)
        moderateCount == CountIf(endorsements, InBucket3)
        timeWeightedScore ==
            15 * veryRecentCount + 10 * recentCount + 5 * moderateCount
        recs ==
            IF veryRecentCount >= 2
            THEN <<F("recency-multiple", <<>>, <<>>)>>
            ELSE IF veryRecentCount >= 1 /\ (recentCount + moderateCount) >= 2
            THEN <<F("recency-escalating", <<>>, <<>>)>>
            ELSE IF timeWeightedScore >= 20
            THEN <<F("recency-pattern", <<>>, <<>>)>>
            ELSE <<>>
    IN  IF veryRecentCount > 0 \/ recentCount > 0 \/ moderateCount > 0
        THEN Contribution(timeWeightedScore,
                 <<F("time-weighted",
                     <<veryRecentCount, recentCount, moderateCount>>, <<>>)>>,
                 recs)
        ELSE Contribution(timeWeightedScore, <<>>, <<>>)

\* mutant: the serious-offence list reduced to the level-4 codes
seriousOffenceCodes_Level4 ==
    {"DR10", "DR20", "DR30", "DR40", "DR50", "DR60", "DR70", "DR80",
     "DD40", "DD60", "DD80", "CD40", "CD50", "CD60"}

\* lines 381-402
seriousOffenceCodes ==
    {"DR10", "DR20", "DR30", "DR40", "DR50", "DR60", "DR70", "DR80",
     "DD40", "DD60", "DD80",
     "IN10", "IN20", "IN30",
     "LC20", "LC30", "LC40", "LC50",
     "UT50",
     "CD40", "CD50", "CD60",
     "MS50", "MS60", "MS70"}

\* lines 404-412
SeriousOffence(r) ==
    LET endorsements == OrEmpty(r.endorsements) IN
    IF \E i \in 1..Len(endorsements) :
           endorsements[i].code \in seriousOffenceCodes
    THEN Contribution(35, <<F("serious", <<>>, <<>>)>>,
                          <<F("enhanced-monitoring", <<>>, <<>>)>>)
    ELSE Nothing

\* mutant: an end date that cannot be read is taken as still running
DisqActiveInScore_UnreadableIsActive(endDate, now) ==
    IF ~Truthy(endDate) THEN TRUE
    ELSE ~Le(newDate(endDate), now)

\* mutant: a disqualification that ends today still counted
DisqActiveInScore_EndsTodayActive(endDate, now) ==
    IF ~Truthy(endDate) THEN TRUE
    ELSE ~Lt(newDate(endDate), now) /\ newDate(endDate) # NaN

\* the filter callback of lines 416-419, on one disqualification's endDate
DisqActiveInScore(endDate, now) ==
    IF ~Truthy(endDate) THEN TRUE
    ELSE Gt(newDate(endDate), now)

\* lines 414-426
ActiveDisqualification(r, now) ==
    LET disqs == OrEmpty(r.disqualifications) IN
    IF \E i \in 1..Len(disqs) : DisqActiveInScore(disqs[i], now)
    THEN Contribution(40, <<F("disqualified", <<>>, <<>>)>>,
                          <<F("cannot-drive", <<>>, <<>>)>>)
    ELSE Nothing

\* lines 428-443; new Date(undefined) is an Invalid Date
CPC(r, now) ==
    IF r.cpcDetails = None THEN Nothing
    ELSE
        LET cpcExpiryDate == newDate(r.cpcDetails[1].expiryDate)
            thirtyDaysFromNow == now + 30
        IN  IF Lt(cpcExpiryDate, now)
            THEN Contribution(20, <<F("cpc-expired", <<>>, <<>>)>>,
                                  <<F("cpc-renew-now", <<>>, <<>>)>>)
            ELSE IF Lt(cpcExpiryDate, thirtyDaysFromNow)
            THEN Contribution(10, <<F("cpc-expiring", <<>>, <<>>)>>,
                                  <<F("cpc-schedule", <<>>, <<>>)>>)
            ELSE Nothing

\* mutant: years of 365 days
Age_Years365(dateOfBirth, now) == (now - dateOfBirth) \div 365

\* line 450: Math.floor((now - birthDate) / (365.25 days))
Age(dateOfBirth, now) == (4 * (now - dateOfBirth)) \div 1461

\* lines 452-485, for a driver with a date of birth
Medical(d, now) ==
    LET age == Age(newDate(d.dateOfBirth), now)
        medicalRequired == age >= 45
        daysSinceLastMedical == now - newDate(d.lastMedicalDate)
        maxDaysBetweenMedicals == IF age >= 65 THEN 365 ELSE 5 * 365
        warningDays == IF age >= 65 THEN 30 ELSE 90
    IN  IF medicalRequired /\ Truthy(d.lastMedicalDate)
        THEN IF daysSinceLastMedical > maxDaysBetweenMedicals
             THEN Contribution(25,
                      <<F("medical-overdue",
                          <<daysSinceLastMedical \div 365>>, <<>>)>>,
                      <<F("medical-now", <<age>>, <<>>)>>)
             ELSE IF daysSinceLastMedical > maxDaysBetweenMedicals - warningDays
             THEN Contribution(10,
                      <<F("medical-due-soon",
                          <<(maxDaysBetweenMedicals - daysSinceLastMedical)
                                \div 30>>, <<>>)>>,
                      <<F("medical-schedule", <<age>>, <<>>)>>)
             ELSE Nothing
        ELSE IF medicalRequired /\ ~Truthy(d.lastMedicalDate)
        THEN Contribution(20, <<F("medical-unknown", <<age>>, <<>>)>>,
                              <<F("medical-status", <<age>>, <<>>)>>)
        ELSE Nothing

\* lines 487-501
NewDriver(r, d, now) ==
    IF Truthy(d.licenceIssueDate)
    THEN LET daysSinceLicence == now - newDate(d.licenceIssueDate)
             points == r.penaltyPoints
         IN  IF daysSinceLicence < 2 * 365 /\ points >= 6
             THEN Contribution(15, <<F("new-driver", <<points>>, <<>>)>>,
                                   <<F("new-driver-risk", <<>>, <<>>)>>)
             ELSE Nothing
    ELSE Nothing

\* lines 445-506: the stored dates of a Driver are Date values or null
AgeAndMedical(r, driver, now) ==
    IF driver # None /\ Truthy(driver[1].dateOfBirth)
    THEN Then(Medical(driver[1], now), NewDriver(r, driver[1], now))
    ELSE Nothing

\* the literal list of lines 512, 525, 544, 548, 555, 595, 604, 625, 632, 650, 665
professionalCodes == {"C", "C1", "CE", "C1E", "D", "D1", "DE", "D1E"}

\* array.filter(P), as a sequence
Filter(seq, P(_)) ==
    LET acc[i \in 0..Len(seq)] ==
            IF i = 0 THEN <<>>
            ELSE IF P(seq[i]) THEN Append(acc[i - 1], seq[i])
            ELSE acc[i - 1]
    IN  acc[Len(seq)]

\* array.map(c => c.categoryCode); undefined joins as the empty string
CategoryCodes(cats) == [i \in 1..Len(cats) |-> cats[i].categoryCode]

\* cat.code || cat.categoryCode ('' for a missing member)
CodeOrCategoryCode(cat) == IF cat.code # "" THEN cat.code ELSE cat.categoryCode

\* mutant: the entitlement member of the response not read
ProfessionalBaseline_CategoriesOnly(r) ==
    LET ByEither(cat) == CodeOrCategoryCode(cat) \in professionalCodes
        professionalCategories ==
            IF r.categories # None THEN Filter(r.categories[1], ByEither)
            ELSE <<>>
    IN  IF Len(professionalCategories) > 0
        THEN Contribution(5,
                 <<F("professional", <<>>,
                     CategoryCodes(professionalCategories))>>,
                 <<F("professional-medicals", <<>>, <<>>)>>)
        ELSE Nothing

\* lines 508-535
ProfessionalBaseline(r) ==
    LET ByEither(cat) == CodeOrCategoryCode(cat) \in professionalCodes
        ByCategoryCode(ent) == ent.categoryCode \in professionalCodes
        professionalCategories ==
            IF r.categories # None THEN Filter(r.categories[1], ByEither)
            ELSE IF r.entitlement # None
            THEN Filter(r.entitlement[1], ByCategoryCode)
            ELSE <<>>
    IN  IF Len(professionalCategories) > 0
        THEN Contribution(5,
                 <<F("professional", <<>>,
                     CategoryCodes(professionalCategories))>>,
                 <<F("professional-medicals", <<>>, <<>>)>>)
        ELSE Nothing

\* lines 593, 602, 622, 629, 648, 663: the list the category rules read
CategoryList(r) ==
    IF r.categories # None THEN r.categories[1]
    ELSE IF r.entitlement # None THEN r.entitlement[1]
    ELSE <<>>

\* lines 540-550
CurrentProfessionalCats(r) ==
    LET ByCategoryCode(cat) == cat.categoryCode \in professionalCodes
    IN  CategoryCodes(Filter(CategoryList(r), ByCategoryCode))

Includes(seq, x) == \E i \in 1..Len(seq) : seq[i] = x

\* mutant: 30 for each lost category
LostAndDowngraded_PerCategory(r, d) ==
    IF d.licenceCategories = None THEN Nothing
    ELSE
        LET current == CurrentProfessionalCats(r)
            IsProfessional(cat) == cat \in professionalCodes
            previous == Filter(d.licenceCategories[1], IsProfessional)
            NotCurrent(cat) == ~Includes(current, cat)
            lostCategories == Filter(previous, NotCurrent)
            Downgrade(withTrailer, rigid) ==
                IF Includes(previous, withTrailer)
                    /\ ~Includes(current, withTrailer)
                    /\ Includes(current, rigid)
                THEN <<withTrailer>> ELSE <<>>
            downgrades ==
                Downgrade("CE", "C") \o Downgrade("C1E", "C1")
                    \o Downgrade("DE", "D") \o Downgrade("D1E", "D1")
            lost ==
                IF Len(lostCategories) > 0
                THEN Contribution(30 * Len(lostCategories),
                         <<F("lost-categories", <<>>, lostCategories)>>,
                         <<F("lost-investigate", <<>>, <<>>)>>)
                ELSE Nothing
            down ==
                IF Len(downgrades) > 0
                THEN Contribution(20,
                         <<F("downgrades", <<>>, downgrades)>>,
                         <<F("downgrade-review", <<>>, <<>>)>>)
                ELSE Nothing
        IN  Then(lost, down)

\* mutant: 20 for each downgrade
LostAndDowngraded_PerDowngrade(r, d) ==
    IF d.licenceCategories = None THEN Nothing
    ELSE
        LET current == CurrentProfessionalCats(r)
            IsProfessional(cat) == cat \in professionalCodes
            previous == Filter(d.licenceCategories[1], IsProfessional)
            NotCurrent(cat) == ~Includes(current, cat)
            lostCategories == Filter(previous, NotCurrent)
            Downgrade(withTrailer, rigid) ==
                IF Includes(previous, withTrailer)
                    /\ ~Includes(current, withTrailer)
                    /\ Includes(current, rigid)
                THEN <<withTrailer>> ELSE <<>>
            downgrades ==
                Downgrade("CE", "C") \o Downgrade("C1E", "C1")
                    \o Downgrade("DE", "D") \o Downgrade("D1E", "D1")
            lost ==
                IF Len(lostCategories) > 0
                THEN Contribution(30,
                         <<F("lost-categories", <<>>, lostCategories)>>,
                         <<F("lost-investigate", <<>>, <<>>)>>)
                ELSE Nothing
            down ==
                IF Len(downgrades) > 0
                THEN Contribution(20 * Len(downgrades),
                         <<F("downgrades", <<>>, downgrades)>>,
                         <<F("downgrade-review", <<>>, <<>>)>>)
                ELSE Nothing
        IN  Then(lost, down)

\* lines 552-588
LostAndDowngraded(r, d) ==
    IF d.licenceCategories = None THEN Nothing
    ELSE
        LET current == CurrentProfessionalCats(r)
            IsProfessional(cat) == cat \in professionalCodes
            previous == Filter(d.licenceCategories[1], IsProfessional)
            NotCurrent(cat) == ~Includes(current, cat)
            lostCategories == Filter(previous, NotCurrent)
            Downgrade(withTrailer, rigid) ==
                IF Includes(previous, withTrailer)
                    /\ ~Includes(current, withTrailer)
                    /\ Includes(current, rigid)
                THEN <<withTrailer>> ELSE <<>>
            downgrades ==
                Downgrade("CE", "C") \o Downgrade("C1E", "C1")
                    \o Downgrade("DE", "D") \o Downgrade("D1E", "D1")
            lost ==
                IF Len(lostCategories) > 0
                THEN Contribution(30,
                         <<F("lost-categories", <<>>, lostCategories)>>,
                         <<F("lost-investigate", <<>>, <<>>)>>)
                ELSE Nothing
            down ==
                IF Len(downgrades) > 0
                THEN Contribution(20,
                         <<F("downgrades", <<>>, downgrades)>>,
                         <<F("downgrade-review", <<>>, <<>>)>>)
                ELSE Nothing
        IN  Then(lost, down)

\* lines 590-617
CategoryRestrictions(r) ==
    LET Restricted(cat) ==
            cat.categoryCode \in professionalCodes /\ cat.restrictions > 0
        categoryRestrictions == CategoryCodes(Filter(CategoryList(r), Restricted))
    IN  IF Len(categoryRestrictions) > 0
        THEN Contribution(15,
                 <<F("category-restrictions", <<>>, categoryRestrictions)>>,
                 <<F("restrictions-verify", <<>>, <<>>)>>)
        ELSE Nothing

\* lines 619-642
ProvisionalProfessional(r) ==
    LET Provisional(cat) ==
            cat.categoryCode \in professionalCodes /\ cat.provisional
        provisionalProfessional ==
            CategoryCodes(Filter(CategoryList(r), Provisional))
    IN  IF Len(provisionalProfessional) > 0
        THEN Contribution(25,
                 <<F("provisional", <<>>, provisionalProfessional)>>,
                 <<F("provisional-full-required", <<>>, <<>>)>>)
        ELSE Nothing

\* lines 644-684
ExpiredProfessional(r, now) ==
    LET Expired(cat) ==
            /\ cat.categoryCode \in professionalCodes
            /\ Truthy(cat.expiryDate)
            /\ Lt(newDate(cat.expiryDate), now)
        expiredProfessional == CategoryCodes(Filter(CategoryList(r), Expired))
    IN  IF Len(expiredProfessional) > 0
        THEN Contribution(35,
                 <<F("expired-categories", <<>>, expiredProfessional)>>,
                 <<F("expired-renew", <<>>, <<>>)>>)
        ELSE Nothing

\* lines 537-685
CategoryChanges(r, driver, now) ==
    IF driver = None THEN Nothing
    ELSE Then(LostAndDowngraded(r, driver[1]),
         Then(CategoryRestrictions(r),
         Then(ProvisionalProfessional(r),
              ExpiredProfessional(r, now))))

(***************************************************************************)
(* Advanced pattern detection (lines 701-873).                             *)
(***************************************************************************)

\* The comparator of line 706, (a, b) => time(b) - time(a).  A NaN result
\* is taken as +0 by Array.prototype.sort.
CompareDesc(a, b) ==
    LET ta == newDate(a.dateOfConviction)
        tb == newDate(b.dateOfConviction)
    IN  IF ta = NaN \/ tb = NaN THEN 0 ELSE tb - ta

Reverse(seq) == [i \in 1..Len(seq) |-> seq[Len(seq) + 1 - i]]

\* Array.prototype.sort of Node's engine on an array shorter than 64: the
\* leading run is found (and reversed when strictly descending), and the
\* other elements are placed by binary insertion.  RunEnd is the length of
\* the leading run, idx the next position to compare (from 1).
RECURSIVE RunEnd(_, _, _)
RunEnd(seq, idx, isDescending) ==
    IF idx > Len(seq) THEN idx - 1
    ELSE LET order == CompareDesc(seq[idx], seq[idx - 1]) IN
         IF (isDescending /\ order >= 0) \/ (~isDescending /\ order < 0)
         THEN idx - 1
         ELSE RunEnd(seq, idx + 1, isDescending)

\* the insertion point of pivot in seq[left+1 .. right] (left, right from 0)
RECURSIVE BinarySearch(_, _, _, _)
BinarySearch(seq, pivot, left, right) ==
    IF left >= right THEN left
    ELSE LET mid == left + ((right - left) \div 2)
             order == CompareDesc(pivot, seq[mid + 1])
         IN  IF order < 0 THEN BinarySearch(seq, pivot, left, mid)
             ELSE BinarySearch(seq, pivot, mid + 1, right)

\* seq[1 .. start] is in order; insert seq[start+1], seq[start+2], ...
RECURSIVE BinaryInsertionSort(_, _)
BinaryInsertionSort(seq, start) ==
    IF start >= Len(seq) THEN seq
    ELSE LET pivot == seq[start + 1]
             left == BinarySearch(seq, pivot, 0, start)
         IN  BinaryInsertionSort(
                 SubSeq(seq, 1, left) \o <<pivot>> \o SubSeq(seq, left + 1, start)
                     \o SubSeq(seq, start + 2, Len(seq)),
                 start + 1)

SortByDateDesc(seq) ==
    IF Len(seq) < 2 THEN seq
    ELSE LET isDescending == CompareDesc(seq[2], seq[1]) < 0
             runLength == RunEnd(seq, 3, isDescending)
             run == IF isDescending
                    THEN Reverse(SubSeq(seq, 1, runLength))
                             \o SubSeq(seq, runLength + 1, Len(seq))
                    ELSE seq
         IN  BinaryInsertionSort(run, runLength)

\* lines 704-706
SortedEndorsements(endorsements) ==
    LET HasDate(e) == Truthy(e.dateOfConviction)
    IN  SortByDateDesc(Filter(endorsements, HasDate))

\* lines 710-725
getSeverityLevel(offenceCode) ==
    IF offenceCode \in {"DR10", "DR20", "DR30", "DR40", "DR50", "DR60", "DR70",
                        "DR80", "DD40", "DD60", "DD80", "CD40", "CD50", "CD60"}
    THEN 4
    ELSE IF offenceCode \in {"CD10", "CD20", "CD30", "IN10", "IN20", "IN30",
                             "LC20", "LC30", "LC40", "LC50", "UT50"}
    THEN 3
    ELSE IF offenceCode \in {"SP50", "SP60", "CU80", "CU40"}
    THEN 2
    ELSE 1

Codes(es) == [i \in 1..Len(es) |-> es[i].code]

\* lines 727-740
Escalation(sorted) ==
    IF Len(sorted) >= 3
    THEN LET recentThree == SubSeq(sorted, 1, 3)
             severityLevels ==
                 [i \in 1..3 |-> getSeverityLevel(recentThree[i].code)]
             isEscalating ==
                 severityLevels[3] < severityLevels[2]
                     /\ severityLevels[2] < severityLevels[1]
         IN  IF isEscalating
             THEN Contribution(25,
                      <<F("escalating", <<>>, Reverse(Codes(recentThree)))>>,
                      <<F("escalating-intervene", <<>>, <<>>)>>)
             ELSE Nothing
    ELSE Nothing

\* mutant: the six-month rate compared with the two-year count
FrequencyAcceleration_TwoYears(endorsements, now) ==
    LET After6(e) == Gt(newDate(e.dateOfConviction), MonthsAgo(6, now))
        After24(e) == Gt(newDate(e.dateOfConviction), MonthsAgo(24, now))
        recentSixMonths == CountIf(endorsements, After6)
        recentTwoYears == CountIf(endorsements, After24)
    IN  IF 4 * recentSixMonths > 3 * recentTwoYears /\ recentTwoYears > 0
        THEN Contribution(20,
                 <<F("frequency", <<recentSixMonths, recentTwoYears>>, <<>>)>>,
                 <<F("frequency-monitor", <<>>, <<>>)>>)
        ELSE Nothing

\* lines 742-774.  sixMonthRate > yearRate * 1.5 compares c6/6 with
\* (c12/12) * 1.5, that is 4 * c6 with 3 * c12.
FrequencyAcceleration(endorsements, now) ==
    LET After6(e) == Gt(newDate(e.dateOfConviction), MonthsAgo(6, now))
        After12(e) == Gt(newDate(e.dateOfConviction), MonthsAgo(12, now))
        recentSixMonths == CountIf(endorsements, After6)
        recentYear == CountIf(endorsements, After12)
    IN  IF 4 * recentSixMonths > 3 * recentYear /\ recentYear > 0
        THEN Contribution(20,
                 <<F("frequency", <<recentSixMonths, recentYear>>, <<>>)>>,
                 <<F("frequency-monitor", <<>>, <<>>)>>)
        ELSE Nothing

\* code.substring(0, 2), on the offence codes of the model
OffenceCodesOf(group) ==
    CASE group = "DR" -> {"DR10", "DR20", "DR30", "DR40", "DR50", "DR60",
                          "DR70", "DR80"}
      [] group = "DD" -> {"DD40", "DD60", "DD80"}
      [] group = "CD" -> {"CD10", "CD20", "CD30", "CD40", "CD50", "CD60"}
      [] group = "IN" -> {"IN10", "IN20", "IN30"}
      [] group = "LC" -> {"LC20", "LC30", "LC40", "LC50"}
      [] group = "UT" -> {"UT50"}
      [] group = "MS" -> {"MS50", "MS60", "MS70"}
      [] group = "SP" -> {"SP30", "SP50", "SP60"}
      [] group = "CU" -> {"CU40", "CU80"}
      [] group = "TS" -> {"TS10"}

OffenceGroups == {"DR", "DD", "CD", "IN", "LC", "UT", "MS", "SP", "CU", "TS"}

Substring2(code) == CHOOSE group \in OffenceGroups : code \in OffenceCodesOf(group)

\* mutant: a prefix that is not in the table named "unknown"
getOffenceGroupName_NoFallback(group) ==
    CASE group = "SP" -> "speeding"
      [] group = "DR" -> "drink/drug driving"
      [] group = "DD" -> "dangerous driving"
      [] group = "CD" -> "careless driving"
      [] group = "IN" -> "insurance"
      [] group = "LC" -> "construction & use"
      [] group = "CU" -> "mobile phone/seatbelt"
      [] group = "MS" -> "failure to provide information"
      [] group = "UT" -> "unauthorized taking"
      [] OTHER -> "unknown"

\* lines 829-842
getOffenceGroupName(group) ==
    CASE group = "SP" -> "speeding"
      [] group = "DR" -> "drink/drug driving"
      [] group = "DD" -> "dangerous driving"
      [] group = "CD" -> "careless driving"
      [] group = "IN" -> "insurance"
      [] group = "LC" -> "construction & use"
      [] group = "CU" -> "mobile phone/seatbelt"
      [] group = "MS" -> "failure to provide information"
      [] group = "UT" -> "unauthorized taking"
      [] OTHER -> group

\* lines 778-787: the keys of offenceGroups in insertion order ('' is a
\* missing code) and the count of a key
GroupKeys(endorsements) ==
    LET acc[i \in 0..Len(endorsements)] ==
            IF i = 0 THEN <<>>
            ELSE IF endorsements[i].code = "" THEN acc[i - 1]
            ELSE IF Includes(acc[i - 1], Substring2(endorsements[i].code))
            THEN acc[i - 1]
            ELSE Append(acc[i - 1], Substring2(endorsements[i].code))
    IN  acc[Len(endorsements)]

GroupCount(endorsements, group) ==
    LET InGroup(e) == e.code # "" /\ Substring2(e.code) = group
    IN  CountIf(endorsements, InGroup)

\* lines 789-797
RepeatOffences(endorsements) ==
    LET keys == GroupKeys(endorsements)
        One(group) ==
            LET count == GroupCount(endorsements, group) IN
            IF count >= 3
            THEN Contribution(15,
                     <<F("repeat", <<count>>, <<getOffenceGroupName(group)>>)>>,
                     <<F("repeat-intervene", <<>>,
                         <<getOffenceGroupName(group)>>)>>)
            ELSE Nothing
        acc[i \in 0..Len(keys)] ==
            IF i = 0 THEN Nothing ELSE Then(acc[i - 1], One(keys[i]))
    IN  acc[Len(keys)]

\* Math.abs(a - b) on time values
AbsDiff(a, b) ==
    IF a = NaN \/ b = NaN THEN NaN ELSE IF a >= b THEN a - b ELSE b - a

\* the inner loop of lines 853-863, from index j (from 1); st is
\* [clusterCount, endDate]
RECURSIVE ClusterInner(_, _, _, _, _)
ClusterInner(es, i, j, st, maxDaysBetween) ==
    IF j > Len(es) THEN st
    ELSE LET startDate == newDate(es[i].dateOfConviction)
             currentDate == newDate(es[j].dateOfConviction)
             daysDiff == AbsDiff(startDate, currentDate)
         IN  IF Le(daysDiff, maxDaysBetween)
             THEN ClusterInner(es, i, j + 1,
                      [clusterCount |-> st.clusterCount + 1,
                       endDate |-> IF Lt(currentDate, st.endDate)
                                   THEN currentDate ELSE st.endDate],
                      maxDaysBetween)
             ELSE st

\* the outer loop of lines 848-870, from index i (from 1)
RECURSIVE ClustersFrom(_, _, _)
ClustersFrom(es, i, maxDaysBetween) ==
    IF i >= Len(es) THEN <<>>
    ELSE LET startDate == newDate(es[i].dateOfConviction)
             st == ClusterInner(es, i, i + 1,
                       [clusterCount |-> 1, endDate |-> startDate],
                       maxDaysBetween)
         IN  IF st.clusterCount >= 2
             THEN <<[count |-> st.clusterCount,
                     daySpan |-> AbsDiff(startDate, st.endDate)]>>
                      \o ClustersFrom(es, i + st.clusterCount, maxDaysBetween)
             ELSE ClustersFrom(es, i + 1, maxDaysBetween)

\* mutant: a window of 120 days
findTemporalClusters_Wider(endorsements, maxDaysBetween) ==
    ClustersFrom(endorsements, 1, maxDaysBetween + 30)

\* lines 845-873
findTemporalClusters(endorsements, maxDaysBetween) ==
    ClustersFrom(endorsements, 1, maxDaysBetween)

\* lines 799-809
Clustering(sorted) ==
    LET clusters == findTemporalClusters(sorted, 90)
        One(cluster) ==
            IF cluster.count >= 2
            THEN Contribution(10 * cluster.count,
                     <<F("cluster", <<cluster.count, cluster.daySpan>>, <<>>)>>,
                     <<F("cluster-review", <<>>, <<>>)>>)
            ELSE Nothing
        acc[i \in 0..Len(clusters)] ==
            IF i = 0 THEN Nothing ELSE Then(acc[i - 1], One(clusters[i]))
    IN  acc[Len(clusters)]

SeveritySum(es) ==
    LET acc[i \in 0..Len(es)] ==
            IF i = 0 THEN 0 ELSE acc[i - 1] + getSeverityLevel(es[i].code)
    IN  acc[Len(es)]

\* lines 811-825.  recentAvg > olderAvg * 1.3 compares sumR/lenR with
\* 1.3 * sumO/lenO, that is 10 * sumR * lenO with 13 * sumO * lenR.
BehaviouralTrend(sorted) ==
    IF Len(sorted) >= 4
    THEN LET half == Len(sorted) \div 2
             recentHalf == SubSeq(sorted, 1, half)
             olderHalf == SubSeq(sorted, half + 1, Len(sorted))
         IN  IF 10 * SeveritySum(recentHalf) * Len(olderHalf)
                    > 13 * SeveritySum(olderHalf) * Len(recentHalf)
             THEN Contribution(15, <<F("deterioration", <<>>, <<>>)>>,
                                   <<F("declining-trend", <<>>, <<>>)>>)
             ELSE Nothing
    ELSE Nothing

\* lines 701-826
AdvancedPatterns(r, now) ==
    LET endorsements == OrEmpty(r.endorsements)
        sorted == SortedEndorsements(endorsements)
    IN  IF Len(endorsements) > 0
        THEN Then(Escalation(sorted),
             Then(FrequencyAcceleration(endorsements, now),
             Then(RepeatOffences(endorsements),
             Then(Clustering(sorted),
                  BehaviouralTrend(sorted)))))
        ELSE Nothing

\* lines 890-895
Restrictions(r) ==
    LET restrictions == OrEmpty(r.restrictions) IN
    IF Len(restrictions) > 0
    THEN Contribution(10, <<F("restrictions", <<Len(restrictions)>>, <<>>)>>,
                          <<F("restrictions-comply", <<>>, <<>>)>>)
    ELSE Nothing

\* mutant: the high threshold taken as strict
RiskLevel_StrictHigh(score) ==
    IF score > 40 THEN "high"
    ELSE IF score >= 15 THEN "medium"
    ELSE "low"

\* lines 897-905
RiskLevel(score) ==
    IF score >= 40 THEN "high"
    ELSE IF score >= 15 THEN "medium"
    ELSE "low"

\* mutant: the advanced patterns evaluated with the time-weighted recency,
\* before the serious-offence rule
Assess_PatternsFirst(r, driver, now) ==
    Then(BaseInvalidity(r, now),
    Then(PenaltyPoints(r),
    Then(TimeWeighted(r, now),
    Then(AdvancedPatterns(r, now),
    Then(SeriousOffence(r),
    Then(ActiveDisqualification(r, now),
    Then(CPC(r, now),
    Then(AgeAndMedical(r, driver, now),
    Then(ProfessionalBaseline(r),
    Then(CategoryChanges(r, driver, now),
         Restrictions(r)))))))))))

\* the rule groups in the order of the statements of lines 303-895
Assess(r, driver, now) ==
    Then(BaseInvalidity(r, now),
    Then(PenaltyPoints(r),
    Then(TimeWeighted(r, now),
    Then(SeriousOffence(r),
    Then(ActiveDisqualification(r, now),
    Then(CPC(r, now),
    Then(AgeAndMedical(r, driver, now),
    Then(ProfessionalBaseline(r),
    Then(CategoryChanges(r, driver, now),
    Then(AdvancedPatterns(r, now),
         Restrictions(r)))))))))))

calculateRiskLevel(r, driver, now) ==
    LET total == Assess(r, driver, now) IN
    [level |-> RiskLevel(total.s), score |-> total.s,
     factors |-> total.f, recommendations |-> total.r]

(***************************************************************************)
(* calculateNextCheckDate (lines 913-929).                                 *)
(***************************************************************************)

\* Date.prototype.setMonth(getMonth() + n): the month is advanced, the year
\* carries, the day of the month is kept, and a day the target month does
\* not have runs over into the month after it.
SetMonthPlus(date, n) ==
    LET m0 == (date.m - 1) + n
        y1 == date.y + (m0 \div 12)
        m1 == (m0 % 12) + 1
        len == DaysInMonth(y1, m1)
    IN  IF date.d <= len THEN [y |-> y1, m |-> m1, d |-> date.d]
        ELSE IF m1 = 12 THEN [y |-> y1 + 1, m |-> 1, d |-> date.d - len]
        ELSE [y |-> y1, m |-> m1 + 1, d |-> date.d - len]

calculateNextCheckDate(riskLevel, today) ==
    CASE riskLevel = "high" -> SetMonthPlus(today, 1)
      [] riskLevel = "medium" -> SetMonthPlus(today, 3)
      [] riskLevel = "low" -> SetMonthPlus(today, 6)

(***************************************************************************)
(* The inputs.                                                             *)
(***************************************************************************)
SeqsUpTo(S, n) == UNION {[1..k -> S] : k \in 0..n}
Optional(S) == {None} \cup {Some(v) : v \in S}

\* a DVLALicenceResponse (dvla.service.ts lines 9-80), the members the
\* engine reads
Response(expiryDate, statusCode, disqualifications, penaltyPoints, endorsements, restrictions, cpcDetails, categories, entitlement) ==
    [expiryDate |-> expiryDate, statusCode |-> statusCode,
     disqualifications |-> disqualifications, penaltyPoints |-> penaltyPoints,
     endorsements |-> endorsements, restrictions |-> restrictions,
     cpcDetails |-> cpcDetails, categories |-> categories,
     entitlement |-> entitlement]

\* a DVLAEndorsement (dvla.service.ts lines 107-115)
Endorsement(code, dateOfConviction) ==
    [code |-> code, dateOfConviction |-> dateOfConviction]

\* a DVLACategory or DVLACategoryLegacy (dvla.service.ts lines 82-105):
\* restrictions is the length of the restriction list, provisional is
\* categoryType === 'Provisional' || provisionalEntitlement === true,
\* expiryDate is expiryDate || validToDate
Category(code, categoryCode, restrictions, provisional, expiryDate) ==
    [code |-> code, categoryCode |-> categoryCode,
     restrictions |-> restrictions, provisional |-> provisional,
     expiryDate |-> expiryDate]

\* a Driver (driver.entity.ts lines 23-82), the members the engine reads
Driver(dateOfBirth, lastMedicalDate, licenceIssueDate, licenceCategories) ==
    [dateOfBirth |-> dateOfBirth, lastMedicalDate |-> lastMedicalDate,
     licenceIssueDate |-> licenceIssueDate,
     licenceCategories |-> licenceCategories]

NoAssessment ==
    [level |-> "none", score |-> 0, factors |-> <<>>, recommendations |-> <<>>]

\* the day of the scheduling example of the specification
Today == [y |-> 2024, m |-> 1, d |-> 15]

\* a licence that expires in ten years
FarFuture(now) == now + 3650

\* a record on which no rule fires
CleanResponse(now) ==
    Response(FarFuture(now), "VALID", None, 0, None, None, None, None, None)

(***************************************************************************)
(* The evaluation of one registry response: the engine calls of            *)
(* performLicenceCheck (lines 74, 77 and 133), in their order.             *)
(***************************************************************************)

\* line 74
Validate ==
    /\ pc = "start"
    /\ valid' = isLicenceValid(rec, Now)
    /\ pc' = "validated"
    /\ UNCHANGED <<clock, rec, drv, out, prev, due, processVars, clientVars, bulk>>

\* line 77
Evaluate ==
    /\ pc = "validated"
    /\ out' = calculateRiskLevel(rec, drv, Now)
    /\ pc' = "assessed"
    /\ UNCHANGED <<clock, rec, drv, valid, prev, due, processVars, clientVars, bulk>>

\* line 133
Schedule ==
    /\ pc = "assessed"
    /\ due' = calculateNextCheckDate(out.level, clock)
    /\ pc' = "scheduled"
    /\ UNCHANGED <<clock, rec, drv, valid, out, prev, processVars, clientVars, bulk>>

Next == Validate \/ Evaluate \/ Schedule

(***************************************************************************)
(* The tables and the services before the first request.                   *)
(***************************************************************************)

\* the two performLicenceCheck calls that may overlap
CallIds == {1, 2}

\* a call that has not been made
NoCall ==
    [pc |-> "idle", found |-> None, rec |-> None, valid |-> FALSE,
     out |-> NoAssessment, check |-> None, error |-> "", after |-> {}]

\* dvla.service.ts lines 130-131
NoToken == [accessToken |-> None, tokenExpiry |-> None]

\* no checkLicence call in progress
NoEnquiry ==
    [pc |-> "idle", started |-> 0, authenticated |-> FALSE,
     sentWith |-> NoToken, status |-> 0]

\* no bulkCheck request in progress
NoBulk ==
    [pc |-> "idle", driverIds |-> None, next |-> None, successful |-> <<>>,
     failed |-> <<>>, status |-> None, summary |-> None]

\* no call made, no check saved
Idle ==
    /\ checks = <<>>
    /\ calls = [c \in CallIds |-> NoCall]
    /\ bulk = NoBulk

\* the registry client after construction
ClientIdle ==
    /\ time = 0
    /\ token = NoToken
    /\ enquiry = NoEnquiry

\* the state before the first call, for a clock, a response and a driver
Start(c, r, d) ==
    /\ clock = c
    /\ rec = r
    /\ drv = d
    /\ pc = "start"
    /\ valid = FALSE
    /\ out = NoAssessment
    /\ prev = NoAssessment
    /\ due = c
    /\ drivers = None
    /\ Idle
    /\ ClientIdle

(***************************************************************************)
(* SpecValidity: every combination of expiry date, status code and         *)
(* disqualification list, on an otherwise clean response.                  *)
(***************************************************************************)
StatusCodes ==
    {"VALID", "REVOKED", "SURRENDERED", "REFUSED", "DISQUALIFIED", "unknown"}

\* missing, unparseable, yesterday, today, tomorrow
DatesAround(now) == {NoDate, BadDate, now - 1, now, now + 1}

ValidityResponses(now) ==
    {[CleanResponse(now) EXCEPT !.expiryDate = e, !.statusCode = st,
                                !.disqualifications = dq] :
        e \in DatesAround(now), st \in StatusCodes,
        dq \in Optional(SeqsUpTo(DatesAround(now), MaxDisq))}

InitValidity ==
    \E r \in ValidityResponses(DayNumber(Today)) : Start(Today, r, None)

SpecValidity == InitValidity /\ [][Next]_vars

\* what the claims call a parseable date, a date in the past, in the future
Parseable(f) == f # NoDate /\ f # BadDate
InThePast(f) == Parseable(f) /\ f < Now
InTheFuture(f) == Parseable(f) /\ f > Now
Unparseable(f) == f = BadDate

Validated == pc # "start"

HasDisqWith(P(_)) ==
    \E i \in 1..Len(OrEmpty(rec.disqualifications)) :
        P(OrEmpty(rec.disqualifications)[i])

NoEndDate(f) == f = NoDate

C3_UnparseableIsInvalid ==
    (Validated /\ (Unparseable(rec.expiryDate) \/ HasDisqWith(Unparseable)))
        => valid = FALSE

(***************************************************************************)
(* SpecSchedule: every day of two years (one of them a leap year), for a   *)
(* response of each tier.                                                  *)
(***************************************************************************)
ScheduleYears == {2023, 2024}

ScheduleDays ==
    {date \in [y : ScheduleYears, m : 1..12, d : 1..31] :
        date.d <= DaysInMonth(date.y, date.m)}

\* a low, a medium (6 points: 15) and a high (revoked: 50) response
TierResponses(now) ==
    {CleanResponse(now),
     [CleanResponse(now) EXCEPT !.penaltyPoints = 6],
     [CleanResponse(now) EXCEPT !.statusCode = "REVOKED"]}

InitSchedule ==
    \E c \in ScheduleDays : \E r \in TierResponses(DayNumber(c)) :
        Start(c, r, None)

SpecSchedule == InitSchedule /\ [][Next]_vars

Scheduled == pc = "scheduled"

\* the months of calculateNextCheckDate's comments: monthly, quarterly,
\* bi-annually
MonthsFor(level) ==
    CASE level = "high" -> 1 [] level = "medium" -> 3 [] level = "low" -> 6

\* months since year 0 of the month of a date
MonthIndex(date) == 12 * date.y + (date.m - 1)

\* C7: calculateNextCheckDate returns, for every current date including days
\* 29 to 31 of a month, the date exactly 1 (high), 3 (medium) or 6 (low)
\* calendar months later: a date in the calendar month that many months
\* after the current one, on the same day of the month when that month has
\* such a day.
C7_ExactCalendarMonths ==
    Scheduled =>
        /\ MonthIndex(due) = MonthIndex(clock) + MonthsFor(out.level)
        /\ clock.d <= DaysInMonth(due.y, due.m) => due.d = clock.d

(***************************************************************************)
(* Spec: the responses and drivers the scoring engine is evaluated on.     *)
(***************************************************************************)

\* Slice 1, endorsement histories: an offence code of each severity level
\* (4, 3, 2, 1) with conviction dates in the last 6 months (two, 70 days
\* apart), 6 to 12 months ago and more than 24 months ago.
SeverityCodes == {"DR10", "IN10", "SP50", "SP30"}

ConvictionDates(now) == {now - 30, now - 100, now - 250, now - 900}

EndorsementResponses(now) ==
    {[CleanResponse(now) EXCEPT !.endorsements = Some(es)] :
        es \in SeqsUpTo({Endorsement(c, d) : c \in SeverityCodes,
                                            d \in ConvictionDates(now)},
                        MaxEndorsements)}

\* Slice 2, irregular endorsements: a missing code, codes on which the two
\* code lists of the engine disagree, and conviction dates that are missing,
\* unparseable, recent, or 12 to 24 months old.
IrregularCodes == {"", "CD10", "MS50"}

IrregularDates(now) == {NoDate, BadDate, now - 30, now - 500}

IrregularResponses(now) ==
    {[CleanResponse(now) EXCEPT !.endorsements = Some(es)] :
        es \in SeqsUpTo({Endorsement(c, d) : c \in IrregularCodes,
                                            d \in IrregularDates(now)},
                        MaxEndorsements)}

\* Slice 3, drivers: no date of birth, aged 30, 50 and 70; no medical on
\* record or one 100, 350, 400, 1800 and 2000 days ago; no licence issue
\* date or one 100 and 1000 days ago; with and without stored categories.
BirthDates(now) == {NoDate, now - 11000, now - 18300, now - 25600}

MedicalDates(now) ==
    {NoDate, now - 100, now - 350, now - 400, now - 1800, now - 2000}

IssueDates(now) == {NoDate, now - 100, now - 1000}

StoredCategories == {None, Some(<<>>), Some(<<"B", "C", "CE">>)}

Drivers(now) ==
    Optional({Driver(b, m, i, c) :
                 b \in BirthDates(now), m \in MedicalDates(now),
                 i \in IssueDates(now), c \in StoredCategories})

\* a category as the registry returns it now, and in the legacy shape
Plain(categoryCode) == Category("", categoryCode, 0, FALSE, NoDate)
Legacy(code) == Category(code, "", 0, FALSE, NoDate)

DriverResponses(now) ==
    {[CleanResponse(now) EXCEPT !.penaltyPoints = p, !.categories = c] :
        p \in {0, 6},
        c \in {None, Some(<<Plain("B")>>), Some(<<Plain("C")>>)}}

\* Slice 4, category lists: car and lorry categories, a lorry category that
\* is restricted, provisional, expired, or has an unparseable expiry date,
\* and one in the legacy shape; under either member name of the response.
CategoryEntries(now) ==
    {Plain("B"), Plain("C"), Plain("CE"), Legacy("C"),
     Category("", "C", 1, FALSE, NoDate),
     Category("", "C", 0, TRUE, NoDate),
     Category("", "C", 0, FALSE, now - 1),
     Category("", "C", 0, FALSE, BadDate)}

CategoryResponses(now) ==
    {[CleanResponse(now) EXCEPT !.categories = c, !.entitlement = e] :
        c \in Optional(SeqsUpTo(CategoryEntries(now), MaxCategories)),
        e \in {None, Some(<<Plain("C"), Plain("CE")>>)}}

CategoryDrivers(now) ==
    {None,
     Some(Driver(NoDate, NoDate, NoDate, None)),
     Some(Driver(NoDate, NoDate, NoDate, Some(<<"B", "C", "CE">>)))}

\* Slice 5, every rule group off or on, together.
OldDriver(now) ==
    Driver(now - 25600, now - 400, now - 100, Some(<<"C", "CE", "D">>))

MixedResponses(now) ==
    {Response(e, "VALID", dq, p, es, rs, cpc, cats, None) :
        e \in {FarFuture(now), now - 1, NoDate, BadDate},
        dq \in {None, Some(<<>>), Some(<<NoDate>>), Some(<<BadDate>>)},
        p \in {0, 9},
        es \in {None,
                Some(<<Endorsement("SP30", now - 500),
                       Endorsement("SP50", now - 250),
                       Endorsement("DR10", now - 30)>>),
                Some(<<Endorsement("SP30", now - 30),
                       Endorsement("SP30", now - 100),
                       Endorsement("SP30", now - 110),
                       Endorsement("SP50", now - 900)>>)},
        rs \in {None, Some(<<>>), Some(<<"01">>)},
        cpc \in Optional([expiryDate : {NoDate, BadDate, now - 1, now + 29}]),
        cats \in {None,
                  Some(<<Category("", "C", 1, TRUE, now - 1)>>)}}

Init ==
    LET now == DayNumber(Today) IN
    \/ \E r \in EndorsementResponses(now) : Start(Today, r, None)
    \/ \E r \in IrregularResponses(now) : Start(Today, r, None)
    \/ \E r \in DriverResponses(now) : \E d \in Drivers(now) :
           Start(Today, r, d)
    \/ \E r \in CategoryResponses(now) : \E d \in CategoryDrivers(now) :
           Start(Today, r, d)
    \/ \E r \in MixedResponses(now) : \E d \in {None, Some(OldDriver(now))} :
           Start(Today, r, d)

Spec == Init /\ [][Next]_vars

Assessed == pc \in {"assessed", "scheduled"}

\* C1: the tier is high exactly when score >= 40, medium exactly when
\* 15 <= score < 40 and low exactly when score < 15, and the score is never
\* negative.
C1_TierOfScore ==
    Assessed =>
        /\ out.score >= 0
        /\ out.level = "high" <=> out.score >= 40
        /\ out.level = "medium" <=> (out.score >= 15 /\ out.score < 40)
        /\ out.level = "low" <=> out.score < 15

\* a score on each side of each threshold is produced: 10 (low), 15
\* (medium), 35 (medium) and 40 (high)
C1_Witness ==
    /\ Assessed
    /\ \/ out.score = 40 /\ out.level = "high"
       \/ out.score = 15 /\ out.level = "medium"

HasFactor(kind) ==
    \E i \in 1..Len(out.factors) : out.factors[i].kind = kind

CountFactor(kind) ==
    Cardinality({i \in 1..Len(out.factors) : out.factors[i].kind = kind})

Endorsements == OrEmpty(rec.endorsements)

HasCodeIn(codes) ==
    \E i \in 1..Len(Endorsements) : Endorsements[i].code \in codes

\* the codes of severity level 4: drink or drug driving, dangerous driving,
\* death by careless driving
Level4Codes ==
    {"DR10", "DR20", "DR30", "DR40", "DR50", "DR60", "DR70", "DR80",
     "DD40", "DD60", "DD80", "CD40", "CD50", "CD60"}

\* C10 as stated: the serious-offence contribution is present exactly when
\* some endorsement code is a code of severity level 4.
C10_SeriousIsLevel4 ==
    Assessed => (HasFactor("serious") <=> HasCodeIn(Level4Codes))

\* the codes the serious-offence rule reads: level 4, and insurance,
\* construction and use, unauthorised taking, failure to give information
ListedSeriousCodes ==
    Level4Codes \cup {"IN10", "IN20", "IN30", "LC20", "LC30", "LC40", "LC50",
                      "UT50", "MS50", "MS60", "MS70"}

\* C10 as amended: +35 and one factor, once whatever the number of such
\* endorsements, exactly when some endorsement code is one of the 25 listed
\* codes; no contribution otherwise (speeding, careless driving CD10-CD30).
C10_SeriousIsListed ==
    Assessed =>
        /\ HasCodeIn(ListedSeriousCodes) =>
               CountFactor("serious") = 1 /\ SeriousOffence(rec).s = 35
        /\ ~HasCodeIn(ListedSeriousCodes) =>
               CountFactor("serious") = 0 /\ SeriousOffence(rec).s = 0

\* two insurance and failure-to-inform endorsements, no level-4 code: one
\* serious-offence factor
C10_Witness ==
    /\ Assessed
    /\ Len(Endorsements) >= 2
    /\ \A i \in 1..Len(Endorsements) :
           Endorsements[i].code \in {"IN10", "MS50"}
    /\ CountFactor("serious") = 1

\* the rule a factor or a recommendation comes from
RuleOf(item) ==
    LET k == item.kind IN
    CASE k \in {"invalid", "investigate"} -> "base"
      [] k \in {"points-high", "points-medium", "points-low", "training",
                "monitor"} -> "points"
      [] k \in {"time-weighted", "recency-multiple", "recency-escalating",
                "recency-pattern"} -> "recency"
      [] k \in {"serious", "enhanced-monitoring"} -> "serious"
      [] k \in {"disqualified", "cannot-drive"} -> "disqualification"
      [] k \in {"cpc-expired", "cpc-expiring", "cpc-renew-now",
                "cpc-schedule"} -> "cpc"
      [] k \in {"medical-overdue", "medical-due-soon", "medical-unknown",
                "medical-now", "medical-schedule", "medical-status"} -> "medical"
      [] k \in {"new-driver", "new-driver-risk"} -> "new-driver"
      [] k \in {"professional", "professional-medicals"} -> "professional"
      [] k \in {"lost-categories", "lost-investigate"} -> "lost"
      [] k \in {"downgrades", "downgrade-review"} -> "downgrade"
      [] k \in {"category-restrictions", "restrictions-verify"}
             -> "category-restrictions"
      [] k \in {"provisional", "provisional-full-required"} -> "provisional"
      [] k \in {"expired-categories", "expired-renew"} -> "expired-categories"
      [] k \in {"escalating", "escalating-intervene"} -> "escalation"
      [] k \in {"frequency", "frequency-monitor"} -> "frequency"
      [] k \in {"repeat", "repeat-intervene"} -> "repeat"
      [] k \in {"cluster", "cluster-review"} -> "clustering"
      [] k \in {"deterioration", "declining-trend"} -> "trend"
      [] k \in {"restrictions", "restrictions-comply"} -> "restrictions"

\* the rule-group order 1 to 9 of the specification
GroupOf(rule) ==
    CASE rule = "base" -> 1
      [] rule = "points" -> 2
      [] rule \in {"recency", "escalation", "frequency", "repeat",
                   "clustering", "trend"} -> 3
      [] rule = "serious" -> 4
      [] rule = "disqualification" -> 5
      [] rule = "cpc" -> 6
      [] rule \in {"medical", "new-driver"} -> 7
      [] rule \in {"professional", "lost", "downgrade",
                   "category-restrictions", "provisional",
                   "expired-categories"} -> 8
      [] rule = "restrictions" -> 9

InOrder(items, Rank(_)) ==
    \A i, j \in 1..Len(items) : i < j => Rank(items[i]) <= Rank(items[j])

\* C5 as stated: the factor list and the recommendation list are ordered by
\* the rule-group order 1 to 9, all temporal-pattern factors in group 3,
\* before the serious-offence, disqualification, CPC, age/medical and
\* professional-category factors.
C5_GroupOrder ==
    LET Rank(item) == GroupOf(RuleOf(item)) IN
    Assessed => InOrder(out.factors, Rank) /\ InOrder(out.recommendations, Rank)

\* the order of the statements of calculateRiskLevel
StatementOf(rule) ==
    CASE rule = "base" -> 1
      [] rule = "points" -> 2
      [] rule = "recency" -> 3
      [] rule = "serious" -> 4
      [] rule = "disqualification" -> 5
      [] rule = "cpc" -> 6
      [] rule = "medical" -> 7
      [] rule = "new-driver" -> 8
      [] rule = "professional" -> 9
      [] rule = "lost" -> 10
      [] rule = "downgrade" -> 11
      [] rule = "category-restrictions" -> 12
      [] rule = "provisional" -> 13
      [] rule = "expired-categories" -> 14
      [] rule = "escalation" -> 15
      [] rule = "frequency" -> 16
      [] rule = "repeat" -> 17
      [] rule = "clustering" -> 18
      [] rule = "trend" -> 19
      [] rule = "restrictions" -> 20

\* C5 as amended: both lists are ordered by the order of the statements:
\* base invalidity, penalty points, time-weighted recency, serious offence,
\* active disqualification, CPC, age and medical, professional categories
\* and their changes, then escalation, frequency acceleration, repeat
\* offences, clustering and behavioural trend, then restrictions; only the
\* repeat-offence and clustering rules add more than one entry.
C5_StatementOrder ==
    LET Rank(item) == StatementOf(RuleOf(item))
        Once(items) ==
            \A i, j \in 1..Len(items) :
                (i < j /\ RuleOf(items[i]) = RuleOf(items[j]))
                    => RuleOf(items[i]) \in {"repeat", "clustering"}
    IN  Assessed =>
            /\ InOrder(out.factors, Rank) /\ Once(out.factors)
            /\ InOrder(out.recommendations, Rank) /\ Once(out.recommendations)

\* a serious-offence, a professional-category and an escalation factor in
\* one list, in this order
C5_Witness ==
    /\ Assessed
    /\ \E i, j, k \in 1..Len(out.factors) :
           /\ i < j /\ j < k
           /\ out.factors[i].kind = "serious"
           /\ out.factors[j].kind = "expired-categories"
           /\ out.factors[k].kind = "escalating"

\* the category list of the response (categories, or else entitlement), and
\* whether the baseline rule finds a professional category in it
Categories == CategoryList(rec)

ProfessionalSet == {"C", "C1", "CE", "C1E", "D", "D1", "DE", "D1E"}

HoldsProfessional ==
    IF rec.categories # None
    THEN \E i \in 1..Len(Categories) :
             Categories[i].code \in ProfessionalSet
                 \/ (Categories[i].code = ""
                         /\ Categories[i].categoryCode \in ProfessionalSet)
    ELSE \E i \in 1..Len(Categories) :
             Categories[i].categoryCode \in ProfessionalSet

\* no endorsements, no disqualifications, no restrictions, an expiry date in
\* the future and a status that is not an invalidating one
CleanRecord ==
    /\ Len(Endorsements) = 0
    /\ Len(OrEmpty(rec.disqualifications)) = 0
    /\ Len(OrEmpty(rec.restrictions)) = 0
    /\ InTheFuture(rec.expiryDate)
    /\ rec.statusCode \notin {"REVOKED", "SURRENDERED", "REFUSED", "DISQUALIFIED"}

CpcQuiet ==
    \/ rec.cpcDetails = None
    \/ ~Parseable(rec.cpcDetails[1].expiryDate)
    \/ rec.cpcDetails[1].expiryDate >= Now + 30

MedicalQuiet(d) ==
    LET age == (4 * (Now - d.dateOfBirth)) \div 1461 IN
    \/ d.dateOfBirth = NoDate
    \/ age < 45
    \/ /\ d.lastMedicalDate # NoDate
       /\ Now - d.lastMedicalDate <= (IF age >= 65 THEN 365 - 30 ELSE 1825 - 90)

StoredCategoriesKept(d) ==
    \/ d.licenceCategories = None
    \/ \A i \in 1..Len(d.licenceCategories[1]) :
           d.licenceCategories[1][i] \in ProfessionalSet =>
               \E j \in 1..Len(Categories) :
                   Categories[j].categoryCode = d.licenceCategories[1][i]

CategoriesUnqualified ==
    \A i \in 1..Len(Categories) :
        Categories[i].categoryCode \in ProfessionalSet =>
            /\ Categories[i].restrictions = 0
            /\ ~Categories[i].provisional
            /\ ~InThePast(Categories[i].expiryDate)

ProfileQuiet ==
    \/ drv = None
    \/ /\ MedicalQuiet(drv[1])
       /\ StoredCategoriesKept(drv[1])
       /\ CategoriesUnqualified

MaxBase == 3

\* the registry's next response: one endorsement more, anywhere in the list
\* (dvlaService.checkLicence, line 71, on the next performLicenceCheck)
NextResponse ==
    /\ pc = "assessed"
    /\ prev = NoAssessment
    /\ \E e \in [code : {"SP30", "SP50", "DR10"},
                 dateOfConviction : {Now - 30, Now - 250, BadDate}] :
       \E i \in 0..Len(OrEmpty(rec.endorsements)) :
           rec' = [rec EXCEPT !.endorsements =
                      Some(SubSeq(OrEmpty(rec.endorsements), 1, i) \o <<e>>
                           \o SubSeq(OrEmpty(rec.endorsements), i + 1,
                                     Len(OrEmpty(rec.endorsements))))]
    /\ prev' = out
    /\ pc' = "start"
    /\ UNCHANGED <<clock, drv, valid, out, due, processVars, clientVars, bulk>>

NextMono == Validate \/ Evaluate \/ NextResponse

MonoResponses(now) ==
    {Response(FarFuture(now), "VALID", None, 9, Some(es), None, None, None,
              None) :
        es \in SeqsUpTo([code : {"SP30", "SP50", "DR10"},
                         dateOfConviction : {now - 30, now - 250, BadDate}],
                        MaxBase)}

InitMono == \E r \in MonoResponses(DayNumber(Today)) : Start(Today, r, None)

SpecMono == InitMono /\ [][NextMono]_vars

\* the second assessment is there, prev being the first
Reassessed == pc = "assessed" /\ prev # NoAssessment

\* C4: adding one endorsement to a record (here one with 9 penalty points)
\* never yields a lower score than the record without it.
C4_NeverLower == Reassessed => out.score >= prev.score

(***************************************************************************)
(* C9: absent collections and dates that are missing or unparseable.       *)
(***************************************************************************)

NoFactorIn(kinds) == \A i \in 1..Len(out.factors) : out.factors[i].kind \notin kinds

Complete ==
    /\ out.level \in {"low", "medium", "high"}
    /\ out.score \in Nat
    /\ Len(out.factors) >= 0
    /\ Len(out.recommendations) >= 0

Disqualifications == OrEmpty(rec.disqualifications)

AbsentEndorsementsAddNothing ==
    rec.endorsements = None =>
        NoFactorIn({"time-weighted", "serious", "escalating", "frequency",
                    "repeat", "cluster", "deterioration"})

AbsentRestrictionsAddNothing ==
    rec.restrictions = None => NoFactorIn({"restrictions"})

AbsentDisqualificationsAddNothing ==
    rec.disqualifications = None => NoFactorIn({"disqualified"})

AbsentCpcAddsNothing ==
    (rec.cpcDetails = None \/ ~Parseable(rec.cpcDetails[1].expiryDate)) =>
        NoFactorIn({"cpc-expired", "cpc-expiring"})

AbsentCategoriesAddNoCurrentFactor ==
    (rec.categories = None /\ rec.entitlement = None) =>
        NoFactorIn({"professional", "category-restrictions", "provisional",
                    "expired-categories", "downgrades"})

NoConvictionDateAddsNothing ==
    (\A i \in 1..Len(Endorsements) :
         ~Parseable(Endorsements[i].dateOfConviction)) =>
        NoFactorIn({"time-weighted", "frequency", "cluster"})

NoCategoryExpiryAddsNothing ==
    (\A i \in 1..Len(Categories) : ~Parseable(Categories[i].expiryDate)) =>
        NoFactorIn({"expired-categories"})

StatusFine ==
    rec.statusCode \notin {"REVOKED", "SURRENDERED", "REFUSED", "DISQUALIFIED"}

ClusterDates(now) ==
    {BadDate, now - 400, now - 390, now - 320, now - 300, now - 200}

ClusterResponses(now) ==
    {[CleanResponse(now) EXCEPT !.endorsements = Some(es)] :
        es \in SeqsUpTo({Endorsement("SP30", d) : d \in ClusterDates(now)},
                        MaxEndorsements)}

InitCluster ==
    \E r \in ClusterResponses(DayNumber(Today)) : Start(Today, r, None)

SpecCluster == InitCluster /\ [][Next]_vars

\* what a factor says was added to the score
FactorValue(f) ==
    CASE f.kind = "invalid" -> 50
      [] f.kind = "points-high" -> 30
      [] f.kind = "points-medium" -> 15
      [] f.kind = "points-low" -> 5
      [] f.kind = "time-weighted" ->
             15 * f.nums[1] + 10 * f.nums[2] + 5 * f.nums[3]
      [] f.kind = "serious" -> 35
      [] f.kind = "disqualified" -> 40
      [] f.kind = "cpc-expired" -> 20
      [] f.kind = "cpc-expiring" -> 10
      [] f.kind = "medical-overdue" -> 25
      [] f.kind = "medical-due-soon" -> 10
      [] f.kind = "medical-unknown" -> 20
      [] f.kind = "new-driver" -> 15
      [] f.kind = "professional" -> 5
      [] f.kind = "lost-categories" -> 30
      [] f.kind = "downgrades" -> 20
      [] f.kind = "category-restrictions" -> 15
      [] f.kind = "provisional" -> 25
      [] f.kind = "expired-categories" -> 35
      [] f.kind = "escalating" -> 25
      [] f.kind = "frequency" -> 20
      [] f.kind = "repeat" -> 15
      [] f.kind = "cluster" -> 10 * f.nums[1]
      [] f.kind = "deterioration" -> 15
      [] f.kind = "restrictions" -> 10
      [] OTHER -> 0

TotalValue(factors) ==
    LET sum[i \in 0..Len(factors)] ==
            IF i = 0 THEN 0 ELSE sum[i - 1] + FactorValue(factors[i])
    IN  sum[Len(factors)]

\* the positions of the cluster factors in the factor list
ClusterFactors == {i \in 1..Len(out.factors) : out.factors[i].kind = "cluster"}

DateOf(i) == Endorsements[i].dateOfConviction

Distance(a, b) == IF a >= b THEN a - b ELSE b - a

\* member says, for each endorsement, the cluster factor it belongs to (0: to
\* none): each cluster factor has as many members as its size, and a first
\* member from which every member is at most 90 days away, the farthest
\* one by the day span
IsClustering(member) ==
    \A c \in ClusterFactors :
        LET members == {i \in 1..Len(Endorsements) : member[i] = c} IN
        /\ Cardinality(members) = out.factors[c].nums[1]
        /\ \A i \in members : Parseable(DateOf(i))
        /\ \E first \in members :
              /\ \A i \in members : Distance(DateOf(first), DateOf(i)) <= 90
              /\ \E i \in members :
                     Distance(DateOf(first), DateOf(i)) = out.factors[c].nums[2]

\* C12: the clusters do not overlap (every endorsement is in at most one),
\* every member is within 90 days of the first member of its cluster, every
\* cluster that contributes has size 2 or more, adds 10 x size and one
\* factor with its size and day span, and the total is at most 10 x the
\* number of endorsements; convictions at day 0, 10 and 200 give exactly
\* one cluster, of size 2 and span 10.
C12_Clusters ==
    Assessed =>
        /\ \E member \in [1..Len(Endorsements) -> ClusterFactors \cup {0}] :
               IsClustering(member)
        /\ \A c \in ClusterFactors : out.factors[c].nums[1] >= 2
        /\ out.score = TotalValue(out.factors)
        /\ TotalValue(SelectSeq(out.factors, LAMBDA f : f.kind = "cluster"))
               <= 10 * Len(Endorsements)
        /\ (/\ Len(Endorsements) = 3
            /\ {DateOf(i) : i \in 1..3} = {Now - 400, Now - 390, Now - 200}) =>
               /\ Cardinality(ClusterFactors) = 1
               /\ \A c \in ClusterFactors : out.factors[c].nums = <<2, 10>>

\* convictions 400, 390 and 200 days ago, in the order the registry sent
\* them: one cluster of 2 over 10 days, +20 in a score of 55
C12_Witness ==
    /\ Assessed
    /\ Len(Endorsements) = 3
    /\ DateOf(1) = Now - 390 /\ DateOf(2) = Now - 200 /\ DateOf(3) = Now - 400
    /\ Cardinality(ClusterFactors) = 1
    /\ \E c \in ClusterFactors : out.factors[c].nums = <<2, 10>>
    /\ out.score = 55

(***************************************************************************)
(* SpecEscalation: endorsements of severity 1, 2 and 4 with conviction     *)
(* dates 30, 100 and 250 days ago, or unparseable, on a clean response.    *)
(***************************************************************************)

EscalationCodes == {"SP30", "SP50", "DR10"}

EscalationDates(now) == {BadDate, now - 30, now - 100, now - 250}

EscalationResponses(now) ==
    {[CleanResponse(now) EXCEPT !.endorsements = Some(es)] :
        es \in SeqsUpTo({Endorsement(c, d) : c \in EscalationCodes,
                                            d \in EscalationDates(now)},
                        MaxEndorsements)}

InitEscalation ==
    \E r \in EscalationResponses(DayNumber(Today)) : Start(Today, r, None)

SpecEscalation == InitEscalation /\ [][Next]_vars

\* the severity table of the engine, 1 to 4
SeverityOf(code) ==
    IF code \in Level4Codes THEN 4
    ELSE IF code \in {"CD10", "CD20", "CD30", "IN10", "IN20", "IN30", "LC20",
                      "LC30", "LC40", "LC50", "UT50"} THEN 3
    ELSE IF code \in {"SP50", "SP60", "CU80", "CU40"} THEN 2
    ELSE 1

\* the endorsements with a conviction date that can be read
Dated == {i \in 1..Len(Endorsements) : Parseable(DateOf(i))}

\* newest, middle and oldest are the three most recent dated endorsements
\* (endorsements of the same day in either order)
ThreeMostRecent(newest, middle, oldest) ==
    /\ newest # middle /\ middle # oldest /\ newest # oldest
    /\ DateOf(newest) >= DateOf(middle)
    /\ DateOf(middle) >= DateOf(oldest)
    /\ \A i \in Dated \ {newest, middle, oldest} : DateOf(i) <= DateOf(oldest)

Escalating(newest, middle, oldest) ==
    /\ SeverityOf(Endorsements[oldest].code) < SeverityOf(Endorsements[middle].code)
    /\ SeverityOf(Endorsements[middle].code) < SeverityOf(Endorsements[newest].code)

\* C13: the escalation factor (+25) is there exactly when the record has at
\* least three dated endorsements and the severity of the three most recent
\* ones is strictly increasing from the oldest to the newest.
C13_EscalationRule ==
    Assessed =>
        /\ HasFactor("escalating") =>
               \E a, b, c \in Dated :
                   ThreeMostRecent(a, b, c) /\ Escalating(a, b, c)
        /\ ~HasFactor("escalating") =>
               \/ Cardinality(Dated) < 3
               \/ \E a, b, c \in Dated :
                      ThreeMostRecent(a, b, c) /\ ~Escalating(a, b, c)

(***************************************************************************)
(* SpecFrequency: speeding endorsements convicted on either side of the    *)
(* 180-day, the 360-day and the 720-day limit, 500 days ago, or on an      *)
(* unparseable date.                                                       *)
(***************************************************************************)

FrequencyDates(now) ==
    {BadDate, now - 179, now - 180, now - 181, now - 359, now - 360, now - 500,
     now - 719, now - 720}

FrequencyResponses(now) ==
    {[CleanResponse(now) EXCEPT !.endorsements = Some(es)] :
        es \in SeqsUpTo({Endorsement("SP30", d) : d \in FrequencyDates(now)},
                        MaxEndorsements)}

InitFrequency ==
    \E r \in FrequencyResponses(DayNumber(Today)) : Start(Today, r, None)

SpecFrequency == InitFrequency /\ [][Next]_vars

\* the number of endorsements convicted within the last n days
ConvictedWithin(n) ==
    Cardinality({i \in Dated : DateOf(i) > Now - n})

\* C14: the frequency-acceleration factor (+20, once) is there exactly when
\* the 12-month count c12 is not zero and 4 * c6 > 3 * c12, c6 and c12
\* being the endorsements convicted within the last 180 and 360 days; the
\* 24-month count plays no part.
C14_FrequencyRule ==
    Assessed =>
        /\ HasFactor("frequency") <=>
               /\ ConvictedWithin(360) > 0
               /\ 4 * ConvictedWithin(180) > 3 * ConvictedWithin(360)
        /\ CountFactor("frequency") <= 1
        /\ \A i \in 1..Len(out.factors) :
               out.factors[i].kind = "frequency" =>
                   out.factors[i].nums
                       = <<ConvictedWithin(180), ConvictedWithin(360)>>
        /\ out.score = TotalValue(out.factors)

\* one conviction 179 days ago and one 500 days ago: the rate of the last
\* six months is twice the rate of the year, whatever the two-year count
C14_Witness ==
    /\ Assessed
    /\ Len(Endorsements) = 2
    /\ DateOf(1) = Now - 179 /\ DateOf(2) = Now - 500
    /\ HasFactor("frequency")
    /\ out.score = 15 + 5 + 20

(***************************************************************************)
(* SpecCategories: a driver with stored categories, and a category list    *)
(* that the registry sends under `categories` or under `entitlement`, its  *)
(* codes in `categoryCode` or in `code`; then the same list sent again     *)
(* under the other member name or with the other code member.              *)
(***************************************************************************)

CurrentCodes == {"B", "C", "CE", "D", "DE"}

\* full and unrestricted; restricted; provisional; expired yesterday
CategoryAttributes(now) ==
    {[restrictions |-> 0, provisional |-> FALSE, expiryDate |-> NoDate],
     [restrictions |-> 1, provisional |-> FALSE, expiryDate |-> NoDate],
     [restrictions |-> 0, provisional |-> TRUE, expiryDate |-> NoDate],
     [restrictions |-> 0, provisional |-> FALSE, expiryDate |-> now - 1]}

\* the list of codes sent with one set of attributes, in one shape
CategoriesSent(codes, a, legacy) ==
    [i \in 1..Len(codes) |->
        Category(IF legacy THEN codes[i] ELSE "",
                 IF legacy THEN "" ELSE codes[i],
                 a.restrictions, a.provisional, a.expiryDate)]

CategoryListResponses(now) ==
    {[CleanResponse(now) EXCEPT
          !.categories = IF asEntitlement THEN None
                         ELSE Some(CategoriesSent(codes, a, legacy)),
          !.entitlement = IF asEntitlement
                          THEN Some(CategoriesSent(codes, a, legacy))
                          ELSE None] :
        codes \in SeqsUpTo(CurrentCodes, MaxCategories),
        a \in CategoryAttributes(now),
        legacy \in BOOLEAN, asEntitlement \in BOOLEAN}

StoredLists ==
    {None, Some(<<>>), Some(<<"B", "C">>), Some(<<"CE">>), Some(<<"C", "CE">>),
     Some(<<"CE", "DE">>), Some(<<"C", "CE", "D", "DE">>)}

CategoryListDrivers ==
    {None} \cup {Some(Driver(NoDate, NoDate, NoDate, c)) : c \in StoredLists}

\* lines 510 and 522: `categories` and `entitlement` carry the same list
OtherMember(r) ==
    [r EXCEPT !.categories = r.entitlement, !.entitlement = r.categories]

\* DVLACategory.categoryCode and DVLACategoryLegacy.code carry the same code
OtherShape(r) ==
    LET Swap(cats) ==
            [i \in 1..Len(cats) |->
                [cats[i] EXCEPT !.code = cats[i].categoryCode,
                                !.categoryCode = cats[i].code]]
    IN  [r EXCEPT
            !.categories = IF r.categories = None THEN None
                           ELSE Some(Swap(r.categories[1])),
            !.entitlement = IF r.entitlement = None THEN None
                            ELSE Some(Swap(r.entitlement[1]))]

\* the registry's next response: the same list under the other names
\* (dvlaService.checkLicence, line 71, on the next performLicenceCheck)
RenamedResponse ==
    /\ pc = "assessed"
    /\ prev = NoAssessment
    /\ rec' \in {OtherMember(rec), OtherShape(rec), OtherShape(OtherMember(rec))}
    /\ prev' = out
    /\ pc' = "start"
    /\ UNCHANGED <<clock, drv, valid, out, due, processVars, clientVars, bulk>>

NextCategories == Validate \/ Evaluate \/ RenamedResponse

InitCategories ==
    \E r \in CategoryListResponses(DayNumber(Today)) :
        \E d \in CategoryListDrivers : Start(Today, r, d)

SpecCategories == InitCategories /\ [][NextCategories]_vars

\* the professional categories stored with the driver, in stored order
PreviouslyHeld ==
    IF drv = None \/ drv[1].licenceCategories = None THEN <<>>
    ELSE SelectSeq(drv[1].licenceCategories[1],
                   LAMBDA c : c \in ProfessionalSet)

\* the categories of the current record, as DVLACategory names them
CurrentlyHeld == {Categories[i].categoryCode : i \in 1..Len(Categories)}

LostCodes == SelectSeq(PreviouslyHeld, LAMBDA c : c \notin CurrentlyHeld)

FactorsOfKind(kind) == SelectSeq(out.factors, LAMBDA f : f.kind = kind)

C16_FieldNamesDoNotMatter ==
    Reassessed =>
        /\ out.score = prev.score
        /\ out.level = prev.level
        /\ out.factors = prev.factors

(***************************************************************************)
(* C17 and C18: the driver's age, medical and licence issue date.          *)
(***************************************************************************)

(***************************************************************************)
(* SpecMedical: drivers one day short of 45 and of 65 and on the day,      *)
(* medicals on either side of every limit, licences issued 729 and 730     *)
(* days ago, with 0 and 6 penalty points.                                  *)
(***************************************************************************)
MedicalBirthDates(now) ==
    {NoDate, now - 16436, now - 16437, now - 23741, now - 23742}

LastMedicalDates(now) ==
    {NoDate, now - 335, now - 336, now - 365, now - 366,
     now - 1735, now - 1736, now - 1825, now - 1826}

LicenceIssueDates(now) == {NoDate, now - 729, now - 730}

MedicalDrivers(now) ==
    Optional({Driver(b, m, i, None) :
                 b \in MedicalBirthDates(now), m \in LastMedicalDates(now),
                 i \in LicenceIssueDates(now)})

MedicalResponses(now) ==
    {[CleanResponse(now) EXCEPT !.penaltyPoints = p] : p \in {0, 6}}

InitMedical ==
    \E r \in MedicalResponses(DayNumber(Today)) :
        \E d \in MedicalDrivers(DayNumber(Today)) : Start(Today, r, d)

SpecMedical == InitMedical /\ [][Next]_vars

AgeInYears == (4 * (Now - drv[1].dateOfBirth)) \div 1461

\* the one medical factor the policy asks for, or "none"
MedicalDue ==
    IF drv = None \/ drv[1].dateOfBirth = NoDate THEN "none"
    ELSE IF AgeInYears < 45 THEN "none"
    ELSE IF drv[1].lastMedicalDate = NoDate THEN "medical-unknown"
    ELSE LET days == Now - drv[1].lastMedicalDate
             max == IF AgeInYears >= 65 THEN 365 ELSE 1825
             warning == IF AgeInYears >= 65 THEN 30 ELSE 90
         IN  IF days > max THEN "medical-overdue"
             ELSE IF days > max - warning THEN "medical-due-soon"
             ELSE "none"

MedicalKinds == {"medical-unknown", "medical-overdue", "medical-due-soon"}

\* C18: under 45 there is no medical factor; from 45 on there is exactly
\* the one the policy asks for: no medical on record +20, a medical older
\* than the maximum interval (365 days from 65 on, else 1825) +25, one
\* within the warning window before it (30 days from 65 on, else 90) +10,
\* and none otherwise; never two of them.
C18_MedicalPolicy ==
    Assessed =>
        /\ \A kind \in MedicalKinds : HasFactor(kind) <=> MedicalDue = kind
        /\ Cardinality({i \in 1..Len(out.factors) :
                           out.factors[i].kind \in MedicalKinds}) <= 1
        /\ out.score = TotalValue(out.factors)

\* a driver who turned 65 today with a medical 365 days ago: due soon, +10;
\* the same medical is fine for a driver of 64
C18_Witness ==
    /\ Assessed
    /\ drv # None
    /\ drv[1].lastMedicalDate = Now - 365
    /\ rec.penaltyPoints = 0
    /\ drv[1].dateOfBirth = Now - 23742
    /\ AgeInYears = 65
    /\ out.factors = <<F("medical-due-soon", <<0>>, <<>>)>>
    /\ out.score = 10

\* the trailer category of a downgrade from withTrailer to rigid, if any
Downgraded(withTrailer, rigid) ==
    IF /\ \E i \in 1..Len(PreviouslyHeld) : PreviouslyHeld[i] = withTrailer
       /\ withTrailer \notin CurrentlyHeld
       /\ rigid \in CurrentlyHeld
    THEN <<withTrailer>> ELSE <<>>

DowngradesDue ==
    Downgraded("CE", "C") \o Downgraded("C1E", "C1")
        \o Downgraded("DE", "D") \o Downgraded("D1E", "D1")

ConvictedBetween(newer, older) ==
    Cardinality({i \in Dated : DateOf(i) > Now - older /\ DateOf(i) <= Now - newer})

VeryRecent == ConvictedWithin(180)
Recent == ConvictedBetween(180, 360)
Moderate == ConvictedBetween(360, 720)

WeightedSum == 15 * VeryRecent + 10 * Recent + 5 * Moderate

RecencyRecommendations ==
    SelectSeq(out.recommendations,
              LAMBDA r : r.kind \in {"recency-multiple", "recency-escalating",
                                     "recency-pattern"})

\* C20: an endorsement adds 15 when convicted within the last 6 months, 10
\* when 6 to 12 months ago, 5 when 12 to 24 months ago and 0 when older
\* (months of 30 days); one factor with the three counts is there when one
\* of them is not zero; and there is one recency recommendation, and only
\* one, exactly when there are 2 or more very recent endorsements, or 1 or
\* more with 2 or more in the two older buckets, or the sum is 20 or more.
C20_Recency ==
    Assessed =>
        /\ FactorsOfKind("time-weighted")
               = (IF VeryRecent + Recent + Moderate > 0
                  THEN <<F("time-weighted",
                           <<VeryRecent, Recent, Moderate>>, <<>>)>>
                  ELSE <<>>)
        /\ out.score = TotalValue(out.factors)
        /\ Len(RecencyRecommendations)
               = (IF \/ VeryRecent >= 2
                     \/ VeryRecent >= 1 /\ Recent + Moderate >= 2
                     \/ WeightedSum >= 20
                  THEN 1 ELSE 0)

\* convictions 179, 181 and 719 days ago: one in each bucket, 30 in all,
\* and the recommendation
C20_Witness ==
    /\ Assessed
    /\ Len(Endorsements) = 3
    /\ DateOf(1) = Now - 179 /\ DateOf(2) = Now - 181 /\ DateOf(3) = Now - 719
    /\ FactorsOfKind("time-weighted")
           = <<F("time-weighted", <<1, 1, 1>>, <<>>)>>
    /\ RecencyRecommendations = <<F("recency-escalating", <<>>, <<>>)>>

(***************************************************************************)
(* SpecRepeat: up to MaxRepeat endorsements, each a speeding offence       *)
(* (SP30 or SP50), an offence whose prefix is not in the name table (TS10) *)
(* or one without a code; convicted 100 days apart, over 1000 days ago.    *)
(***************************************************************************)

MaxRepeat == 6

RepeatCodes == {"SP30", "SP50", "TS10", ""}

RepeatResponses(now) ==
    {[CleanResponse(now) EXCEPT !.endorsements =
          Some([i \in 1..Len(codes) |->
                   Endorsement(codes[i], now - 1000 - 100 * i)])] :
        codes \in SeqsUpTo(RepeatCodes, MaxRepeat)}

InitRepeat ==
    \E r \in RepeatResponses(DayNumber(Today)) : Start(Today, r, None)

SpecRepeat == InitRepeat /\ [][Next]_vars

\* the first two characters of an offence code
PrefixOf(code) ==
    CASE code \in {"SP30", "SP50", "SP60"} -> "SP"
      [] code \in {"DR10"} -> "DR"
      [] code \in {"IN10"} -> "IN"
      [] code \in {"CD10"} -> "CD"
      [] code \in {"MS50"} -> "MS"
      [] code \in {"TS10"} -> "TS"
      [] OTHER -> ""

\* the name of a prefix in the factor: from the table, or the prefix itself
PrefixName(prefix) ==
    CASE prefix = "SP" -> "speeding"
      [] prefix = "DR" -> "drink/drug driving"
      [] prefix = "IN" -> "insurance"
      [] prefix = "CD" -> "careless driving"
      [] prefix = "MS" -> "failure to provide information"
      [] OTHER -> prefix

InGroup(prefix) ==
    {i \in 1..Len(Endorsements) :
        Endorsements[i].code # "" /\ PrefixOf(Endorsements[i].code) = prefix}

RepeatGroups ==
    {prefix \in {"SP", "DR", "IN", "CD", "MS", "TS"} :
        Cardinality(InGroup(prefix)) >= 3}

\* C21: every group of 3 or more endorsements with the same 2-character
\* prefix adds 15 and one factor, with the group's name (the prefix itself
\* when the table has none) and its count; a group of 1 or 2 adds nothing;
\* the repeat-offence total is 15 x the number of such groups.
C21_RepeatGroups ==
    Assessed =>
        /\ Len(FactorsOfKind("repeat")) = Cardinality(RepeatGroups)
        /\ \A prefix \in RepeatGroups :
               \E i \in 1..Len(out.factors) :
                   out.factors[i] = F("repeat",
                                      <<Cardinality(InGroup(prefix))>>,
                                      <<PrefixName(prefix)>>)
        /\ TotalValue(FactorsOfKind("repeat")) = 15 * Cardinality(RepeatGroups)
        /\ out.score = TotalValue(out.factors)

\* three speeding and three TS10 endorsements, alternating: two factors,
\* "speeding" and "TS", 15 each
C21_Witness ==
    /\ Assessed
    /\ Len(Endorsements) = 6
    /\ Cardinality(InGroup("SP")) = 3
    /\ Cardinality(InGroup("TS")) = 3
    /\ Endorsements[1].code = "SP30" /\ Endorsements[2].code = "TS10"
    /\ FactorsOfKind("repeat")
           = <<F("repeat", <<3>>, <<"speeding">>), F("repeat", <<3>>, <<"TS">>)>>
    /\ out.score = 30

(***************************************************************************)
(* SpecTrend: up to MaxTrend endorsements, minor (SP30) or moderate        *)
(* (SP50), convicted 800 or 1000 days ago or on an unparseable date.       *)
(***************************************************************************)

MaxTrend == 4

TrendCodes == {"SP30", "SP50"}

TrendDates(now) == {BadDate, now - 800, now - 1000}

TrendResponses(now) ==
    {[CleanResponse(now) EXCEPT !.endorsements = Some(es)] :
        es \in SeqsUpTo({Endorsement(c, d) : c \in TrendCodes,
                                            d \in TrendDates(now)},
                        MaxTrend)}

InitTrend ==
    \E r \in TrendResponses(DayNumber(Today)) : Start(Today, r, None)

SpecTrend == InitTrend /\ [][Next]_vars

\* the dated endorsements that come before endorsement i, newest first
\* (endorsements of the same day in the order of the record)
NewerThan(i) ==
    {j \in Dated : \/ DateOf(j) > DateOf(i)
                   \/ DateOf(j) = DateOf(i) /\ j < i}

RecentHalf == {i \in Dated : Cardinality(NewerThan(i)) < Cardinality(Dated) \div 2}

OlderHalf == Dated \ RecentHalf

RECURSIVE SeverityTotal(_)
SeverityTotal(indices) ==
    IF indices = {} THEN 0
    ELSE LET i == CHOOSE i \in indices : TRUE IN
         SeverityOf(Endorsements[i].code) + SeverityTotal(indices \ {i})

\* mean(RecentHalf) > 1.3 x mean(OlderHalf), in whole numbers
Deteriorating ==
    10 * SeverityTotal(RecentHalf) * Cardinality(OlderHalf)
        > 13 * SeverityTotal(OlderHalf) * Cardinality(RecentHalf)

\* C22: the trend factor (+15) is there exactly when the record has at least
\* 4 dated endorsements and, of these sorted newest first and split at
\* floor(n/2), the mean severity of the recent half exceeds 1.3 times the
\* mean severity of the older half.
C22_TrendRule ==
    Assessed =>
        /\ HasFactor("deterioration") <=> (Cardinality(Dated) >= 4 /\ Deteriorating)
        /\ CountFactor("deterioration") <= 1
        /\ out.score = TotalValue(out.factors)

(***************************************************************************)
(* performLicenceCheck (lines 42-156) as a process: the steps of one call  *)
(* between which the clock may advance and another call may run.           *)
(***************************************************************************)

\* a row of the drivers table (driver.entity.ts): the columns the check
\* reads and the ones updateDriverFromLicenceCheck writes
DriverRow(licenceNumber, dateOfBirth, lastMedicalDate, licenceIssueDate, licenceCategories) ==
    [licenceNumber |-> licenceNumber, dateOfBirth |-> dateOfBirth,
     lastMedicalDate |-> lastMedicalDate,
     licenceIssueDate |-> licenceIssueDate,
     licenceCategories |-> licenceCategories,
     licenceStatus |-> "unknown", riskLevel |-> "low", penaltyPoints |-> 0,
     lastLicenceCheck |-> NoDate]

\* dvlaResponse.licence?.status: the response with the nested member
WithLicence(r, status) == [licence |-> status] @@ r

NestedStatus(r) == IF "licence" \in DOMAIN r THEN r.licence ELSE ""

\* line 87: dvlaResponse.licence?.status || dvlaResponse.statusCode || 'unknown'
StoredStatusCode(r) ==
    IF NestedStatus(r) # "" THEN NestedStatus(r)
    ELSE IF r.statusCode # "" THEN r.statusCode
    ELSE "unknown"

\* lines 273-281
UpdatedCategories(r) ==
    IF r.categories # None
    THEN [i \in 1..Len(r.categories[1]) |-> CodeOrCategoryCode(r.categories[1][i])]
    ELSE IF r.entitlement # None THEN CategoryCodes(r.entitlement[1])
    ELSE <<>>

\* lines 80-133: the record of a successful check
SuccessCheck(c, call, date) ==
    [call |-> c, checkDate |-> DayNumber(date), valid |-> call.valid,
     statusCode |-> StoredStatusCode(call.rec[1]),
     penaltyPoints |-> call.rec[1].penaltyPoints,
     categories |-> CategoryList(call.rec[1]),
     riskLevel |-> call.out.level, riskScore |-> call.out.score,
     riskFactors |-> Some(call.out.factors),
     nextCheckDue |-> Some(calculateNextCheckDate(call.out.level, date)),
     errorMessage |-> ""]

\* mutant: the failed check given the recheck date of a high risk
FailedCheck_Scheduled(c, call, date) ==
    [call |-> c, checkDate |-> DayNumber(date), valid |-> FALSE,
     statusCode |-> "", penaltyPoints |-> 0, categories |-> <<>>,
     riskLevel |-> "high", riskScore |-> 0, riskFactors |-> None,
     nextCheckDue |-> Some(calculateNextCheckDate("high", date)),
     errorMessage |-> call.error]

\* lines 143-150: the record of a failed check; the other columns keep
\* their defaults (licence-check.entity.ts)
FailedCheck(c, call, date) ==
    [call |-> c, checkDate |-> DayNumber(date), valid |-> FALSE,
     statusCode |-> "", penaltyPoints |-> 0, categories |-> <<>>,
     riskLevel |-> "high", riskScore |-> 0, riskFactors |-> None,
     nextCheckDue |-> None, errorMessage |-> call.error]

\* the calls that have returned or thrown
Finished == {c \in CallIds : calls[c].pc \in {"done", "thrown"}}

\* lines 49-59
FindDriver(c) ==
    /\ calls[c].pc = "idle"
    /\ calls' = [calls EXCEPT ![c] =
           IF drivers = None
           THEN [@ EXCEPT !.pc = "thrown", !.error = "Driver not found",
                          !.after = Finished]
           ELSE IF ~drivers[1].licenceNumber
           THEN [@ EXCEPT !.pc = "thrown", !.after = Finished,
                          !.error = "Driver licence number is required"]
           ELSE [@ EXCEPT !.pc = "enquiring", !.found = drivers,
                          !.after = Finished]]
    /\ UNCHANGED <<clock, engineVars, drivers, checks, clientVars, bulk>>

\* line 71: the registry answers with r
CheckLicence(c, r) ==
    /\ calls[c].pc = "enquiring"
    /\ calls' = [calls EXCEPT ![c].pc = "responded", ![c].rec = Some(r)]
    /\ UNCHANGED <<clock, engineVars, drivers, checks, clientVars, bulk>>

\* line 71: checkLicence throws
CheckLicenceFails(c) ==
    /\ calls[c].pc = "enquiring"
    /\ calls' = [calls EXCEPT ![c].pc = "caught", ![c].error = "DVLA API error"]
    /\ UNCHANGED <<clock, engineVars, drivers, checks, clientVars, bulk>>

\* line 74
CheckValidity(c) ==
    /\ calls[c].pc = "responded"
    /\ calls' = [calls EXCEPT ![c].pc = "validated",
                              ![c].valid = isLicenceValid(calls[c].rec[1], Now)]
    /\ UNCHANGED <<clock, engineVars, drivers, checks, clientVars, bulk>>

\* line 77
CheckRisk(c) ==
    /\ calls[c].pc = "validated"
    /\ calls' = [calls EXCEPT ![c].pc = "assessed",
                     ![c].out = calculateRiskLevel(calls[c].rec[1],
                                                   calls[c].found, Now)]
    /\ UNCHANGED <<clock, engineVars, drivers, checks, clientVars, bulk>>

\* lines 80-133
BuildCheck(c) ==
    /\ calls[c].pc = "assessed"
    /\ calls' = [calls EXCEPT ![c].pc = "built",
                              ![c].check = Some(SuccessCheck(c, calls[c], clock))]
    /\ UNCHANGED <<clock, engineVars, drivers, checks, clientVars, bulk>>

\* line 135
SaveCheck(c) ==
    /\ calls[c].pc = "built"
    /\ checks' = Append(checks, calls[c].check[1])
    /\ calls' = [calls EXCEPT ![c].pc = "saved"]
    /\ UNCHANGED <<clock, engineVars, drivers, clientVars, bulk>>

\* line 135: the save is rejected
SaveCheckFails(c) ==
    /\ calls[c].pc = "built"
    /\ calls' = [calls EXCEPT ![c].pc = "caught", ![c].error = "save failed"]
    /\ UNCHANGED <<clock, engineVars, drivers, checks, clientVars, bulk>>

\* line 138, lines 261-292: the columns are written to the row as it is
UpdateDriver(c) ==
    /\ calls[c].pc = "saved"
    /\ drivers # None
    /\ drivers' = Some([drivers[1] EXCEPT
           !.lastLicenceCheck = Now,
           !.licenceStatus = IF isLicenceValid(calls[c].rec[1], Now)
                             THEN "valid" ELSE "invalid",
           !.riskLevel = calls[c].out.level,
           !.penaltyPoints = calls[c].rec[1].penaltyPoints,
           !.licenceCategories = Some(UpdatedCategories(calls[c].rec[1]))])
    /\ calls' = [calls EXCEPT ![c].pc = "done"]
    /\ UNCHANGED <<clock, engineVars, checks, clientVars, bulk>>

\* line 138: the update is rejected
UpdateDriverFails(c) ==
    /\ calls[c].pc = "saved"
    /\ calls' = [calls EXCEPT ![c].pc = "caught", ![c].error = "update failed"]
    /\ UNCHANGED <<clock, engineVars, drivers, checks, clientVars, bulk>>

\* lines 141-155: the failed check is saved and the error thrown again
LogFailedCheck(c) ==
    /\ calls[c].pc = "caught"
    /\ checks' = Append(checks, FailedCheck(c, calls[c], clock))
    /\ calls' = [calls EXCEPT ![c].pc = "thrown"]
    /\ UNCHANGED <<clock, engineVars, drivers, clientVars, bulk>>

\* line 152: the save of the failed check is rejected, and its error thrown
LogFailedCheckFails(c) ==
    /\ calls[c].pc = "caught"
    /\ calls' = [calls EXCEPT ![c].pc = "thrown", ![c].error = "save failed"]
    /\ UNCHANGED <<clock, engineVars, drivers, checks, clientVars, bulk>>

\* the day after
NextDay(date) ==
    IF date.d < DaysInMonth(date.y, date.m) THEN [date EXCEPT !.d = @ + 1]
    ELSE IF date.m < 12 THEN [y |-> date.y, m |-> date.m + 1, d |-> 1]
    ELSE [y |-> date.y + 1, m |-> 1, d |-> 1]

MaxDays == 2

\* midnight passes while a call is in progress
Tick ==
    /\ DayNumber(clock) < DayNumber(Today) + MaxDays
    /\ \E c \in CallIds : calls[c].pc \notin {"idle", "done", "thrown"}
    /\ clock' = NextDay(clock)
    /\ UNCHANGED <<engineVars, processVars, clientVars, bulk>>

\* the steps of call c when nothing fails
Steps(c) ==
    \/ FindDriver(c)
    \/ CheckValidity(c)
    \/ CheckRisk(c)
    \/ BuildCheck(c)
    \/ SaveCheck(c)
    \/ UpdateDriver(c)

\* a collaborator of call c fails, and the catch block runs
Failures(c) ==
    \/ CheckLicenceFails(c)
    \/ SaveCheckFails(c)
    \/ UpdateDriverFails(c)
    \/ LogFailedCheck(c)
    \/ LogFailedCheckFails(c)

\* the state before the first call, with the drivers table given
StartProcess(row) ==
    /\ clock = Today
    /\ rec = CleanResponse(DayNumber(Today))
    /\ drv = None
    /\ pc = "start"
    /\ valid = FALSE
    /\ out = NoAssessment
    /\ prev = NoAssessment
    /\ due = Today
    /\ drivers = row
    /\ Idle
    /\ ClientIdle

(***************************************************************************)
(* SpecClock: one check of a licence that expires today, tomorrow or in    *)
(* ten years, on a record with or without a disqualification that ends     *)
(* tomorrow, while the days pass.                                          *)
(***************************************************************************)
ClockResponses(now) ==
    {[CleanResponse(now) EXCEPT !.expiryDate = e, !.disqualifications = dq] :
        e \in {now, now + 1, FarFuture(now)},
        dq \in {None, Some(<<now + 1>>)}}

\* a driver of 40 with a licence number and nothing else on file
PlainDriver(now) == DriverRow(TRUE, now - 14600, NoDate, NoDate, None)

InitClock == StartProcess(Some(PlainDriver(DayNumber(Today))))

NextClock ==
    \/ Steps(1)
    \/ \E r \in ClockResponses(DayNumber(Today)) : CheckLicence(1, r)
    \/ Tick

SpecClock == InitClock /\ [][NextClock]_vars

\* call c has returned its result
Succeeded(c) == calls[c].pc = "done"

\* the check record that call c saved
SavedBy(c) == calls[c].check[1]

\* C23: when a check has succeeded, the valid flag of its record, the
\* presence of the +50 of an invalid licence in its score and the
\* licenceStatus written to the driver say the same.
C23_OneValidity ==
    Succeeded(1) =>
        /\ SavedBy(1).valid <=> drivers[1].licenceStatus = "valid"
        /\ SavedBy(1).valid <=>
               \A i \in 1..Len(calls[1].out.factors) :
                   calls[1].out.factors[i].kind # "invalid"

(***************************************************************************)
(* SpecOverlap: two checks of the same driver, one after the other or      *)
(* overlapping, while the registry record changes between a clean one and  *)
(* a revoked one with 9 points and category C.                             *)
(***************************************************************************)
RevokedResponse(now) ==
    [CleanResponse(now) EXCEPT
        !.statusCode = "REVOKED", !.penaltyPoints = 9,
        !.categories = Some(<<Category("", "C", 0, FALSE, NoDate)>>)]

OverlapResponses(now) == {CleanResponse(now), RevokedResponse(now)}

InitOverlap == StartProcess(Some(PlainDriver(DayNumber(Today))))

NextOverlap ==
    \/ \E c \in CallIds : Steps(c)
    \/ \E c \in CallIds, r \in OverlapResponses(DayNumber(Today)) :
           CheckLicence(c, r)
    \/ Tick

SpecOverlap == InitOverlap /\ [][NextOverlap]_vars

\* the driver holds the values of the check record that call c saved
DriverHolds(c) ==
    /\ drivers[1].riskLevel = SavedBy(c).riskLevel
    /\ drivers[1].penaltyPoints = SavedBy(c).penaltyPoints
    /\ drivers[1].licenceStatus = (IF SavedBy(c).valid THEN "valid" ELSE "invalid")
    /\ drivers[1].licenceCategories
           = Some([i \in 1..Len(SavedBy(c).categories) |->
                      CodeOrCategoryCode(SavedBy(c).categories[i])])

\* C24: when two checks of the same driver have both succeeded, the driver
\* holds the riskLevel, penaltyPoints, licenceStatus and licenceCategories
\* of the check record with the later checkDate.
C24_LaterCheckWins ==
    Succeeded(1) /\ Succeeded(2) =>
        \E c \in CallIds :
            /\ \A d \in CallIds : SavedBy(d).checkDate <= SavedBy(c).checkDate
            /\ DriverHolds(c)

(***************************************************************************)
(* SpecFailures: one check, of a driver that is not on file, has no        *)
(* licence number or is on file, in which the registry, the save of the    *)
(* check, the update of the driver or the save of the failed check fails.  *)
(***************************************************************************)
DriversOnFile(now) ==
    {None, Some(PlainDriver(now)),
     Some(DriverRow(FALSE, now - 14600, NoDate, NoDate, None))}

\* 6 points: a medium risk
SixPoints(now) == [CleanResponse(now) EXCEPT !.penaltyPoints = 6]

FailureResponses(now) ==
    OverlapResponses(now) \cup ClockResponses(now) \cup {SixPoints(now)}

InitFailures == \E row \in DriversOnFile(DayNumber(Today)) : StartProcess(row)

NextFailures ==
    \/ Steps(1)
    \/ Failures(1)
    \/ \E r \in FailureResponses(DayNumber(Today)) : CheckLicence(1, r)
    \/ Tick

SpecFailures == InitFailures /\ [][NextFailures]_vars

\* the saved records of call c
RecordsOf(c) == {i \in 1..Len(checks) : checks[i].call = c}

IsFailedRecord(check) ==
    /\ ~check.valid
    /\ check.riskLevel = "high"
    /\ check.errorMessage # ""

\* C25: a call that found the driver (with a licence number) and has ended
\* has saved exactly one record: the success record when it returned, one
\* failed record (valid = false, riskLevel 'high', the error message) when
\* it threw; a call that did not find the driver has saved none.
C25_OneRecordPerCall ==
    \A c \in CallIds :
        /\ calls[c].pc = "done" =>
               /\ Cardinality(RecordsOf(c)) = 1
               /\ \A i \in RecordsOf(c) : checks[i].errorMessage = ""
        /\ calls[c].pc = "thrown" /\ calls[c].found # None =>
               /\ Cardinality(RecordsOf(c)) = 1
               /\ \A i \in RecordsOf(c) :
                      /\ IsFailedRecord(checks[i])
                      /\ checks[i].errorMessage = calls[c].error
        /\ calls[c].pc = "thrown" /\ calls[c].found = None =>
               RecordsOf(c) = {}

(***************************************************************************)
(* SpecRecheck: checks of a driver stored with [C, CE] whose registry      *)
(* record lists B, C or C and D, in `categories` (either shape of entry)   *)
(* or in `entitlement`.                                                    *)
(***************************************************************************)
RecheckResponses(now) ==
    {[CleanResponse(now) EXCEPT
          !.categories = IF asEntitlement THEN None
                         ELSE Some(CategoriesSent(codes, a, legacy)),
          !.entitlement = IF asEntitlement
                          THEN Some(CategoriesSent(codes, a, legacy))
                          ELSE None] :
        codes \in {<<"B">>, <<"C">>, <<"C", "D">>},
        a \in {[restrictions |-> 0, provisional |-> FALSE, expiryDate |-> NoDate]},
        legacy \in BOOLEAN, asEntitlement \in BOOLEAN}

StoredDriver(now) ==
    DriverRow(TRUE, now - 14600, now - 100, now - 3000, Some(<<"C", "CE">>))

InitRecheck == StartProcess(Some(StoredDriver(DayNumber(Today))))

NextRecheck ==
    \/ \E c \in CallIds : Steps(c)
    \/ \E c \in CallIds, r \in RecheckResponses(DayNumber(Today)) :
           CheckLicence(c, r)

SpecRecheck == InitRecheck /\ [][NextRecheck]_vars

\* the factors of a lost category and of a downgrade in an assessment
LossFactors(assessment) ==
    SelectSeq(assessment.factors,
              LAMBDA f : f.kind \in {"lost-categories", "downgrades"})

\* call c began after call b had returned, against the same registry record
Rechecks(b, c) ==
    /\ Succeeded(b) /\ Succeeded(c)
    /\ b \in calls[c].after
    /\ calls[c].rec = calls[b].rec

\* C26: when a check has reported a lost category or a downgrade, the next
\* successful check against the unchanged registry record reports neither,
\* and its score is lower by the contribution of the loss.
C26_LossScoredOnce ==
    \A b, c \in CallIds :
        Rechecks(b, c) /\ LossFactors(calls[b].out) # <<>> =>
            /\ LossFactors(calls[c].out) = <<>>
            /\ calls[c].out.score
                   = calls[b].out.score - TotalValue(LossFactors(calls[b].out))

\* the tier of a score, thresholds 40 and 15
TierOf(score) ==
    IF score >= 40 THEN "high" ELSE IF score >= 15 THEN "medium" ELSE "low"

\* the days from the check to the recheck of a risk level: 1, 3 or 6
\* months
RecheckDays(level) ==
    CASE level = "high" -> 28..31
      [] level = "medium" -> 89..92
      [] level = "low" -> 181..184

\* the record has the level of its score and the recheck date of its level
ScoredAndScheduled(check) ==
    /\ check.riskLevel = TierOf(check.riskScore)
    /\ check.nextCheckDue # None
    /\ DayNumber(check.nextCheckDue[1]) - check.checkDate
           \in RecheckDays(check.riskLevel)

\* C27 as stated: every saved record, of a successful or of a failed check,
\* has riskLevel = tier(riskScore) and the recheck date of its riskLevel.
C27_EveryRecord ==
    \A i \in 1..Len(checks) : ScoredAndScheduled(checks[i])

\* C27: every saved record of a successful check has riskLevel =
\* tier(riskScore), thresholds 40 and 15, and the recheck date of its
\* riskLevel; a record of a failed check has riskLevel 'high' with the
\* riskScore 0 of the column default and no nextCheckDue.
C27_SuccessRecords ==
    \A i \in 1..Len(checks) :
        IF checks[i].errorMessage = ""
        THEN ScoredAndScheduled(checks[i])
        ELSE /\ checks[i].riskLevel = "high"
             /\ checks[i].riskScore = 0
             /\ checks[i].nextCheckDue = None

\* a medium-risk check saved, due in three months, and then the failed
\* record of the same call
C27_Witness ==
    /\ Len(checks) = 2
    /\ checks[1].errorMessage = "" /\ checks[1].riskLevel = "medium"
    /\ checks[1].riskScore = 15
    /\ checks[1].nextCheckDue = Some([y |-> 2024, m |-> 4, d |-> 15])
    /\ checks[2].errorMessage = "update failed"
    /\ checks[2].riskLevel = "high" /\ checks[2].nextCheckDue = None

(***************************************************************************)
(* SpecStatus: one check of a record whose status comes as a top-level     *)
(* statusCode, as a nested licence.status, as both or as neither, on a     *)
(* licence that has expired or not.                                        *)
(***************************************************************************)
TopLevelStatusCodes == {"", "VALID", "REVOKED", "DISQUALIFIED"}

NestedStatuses == {"", "Valid", "REVOKED", "SURRENDERED", "REFUSED"}

StatusResponses(now) ==
    {IF nested = "" THEN [CleanResponse(now) EXCEPT !.statusCode = top,
                                                    !.expiryDate = e]
     ELSE WithLicence([CleanResponse(now) EXCEPT !.statusCode = top,
                                                 !.expiryDate = e], nested) :
        top \in TopLevelStatusCodes, nested \in NestedStatuses,
        e \in {FarFuture(now), now - 1}}

InitStatus == StartProcess(Some(PlainDriver(DayNumber(Today))))

NextStatus ==
    \/ Steps(1)
    \/ \E r \in StatusResponses(DayNumber(Today)) : CheckLicence(1, r)

SpecStatus == InitStatus /\ [][NextStatus]_vars

\* C28: no record of a successful check is saved with valid = true and a
\* statusCode of REVOKED, SURRENDERED, REFUSED or DISQUALIFIED.
C28_NoValidRevoked ==
    \A i \in 1..Len(checks) :
        checks[i].errorMessage = "" /\ checks[i].valid =>
            checks[i].statusCode
                \notin {"REVOKED", "SURRENDERED", "REFUSED", "DISQUALIFIED"}

(***************************************************************************)
(* The registry client (dvla.service.ts): checkLicence (lines 291-322)     *)
(* with ensureValidToken (lines 252-286) and the response interceptor      *)
(* (lines 167-176, handleDVLAError lines 337-349). Time is in seconds.     *)
(***************************************************************************)

\* line 275: the safety margin of 5 * 60 * 1000 ms
FiveMinutes == 300

\* lines 229 and 270: the lifetime when the registry names none
DefaultLifetime == 3600

\* line 229: responseData.expiresIn || responseData.expires_in || 3600
\* (0 for a response without the member)
ExpiresIn(raw) == IF raw = 0 THEN DefaultLifetime ELSE raw

\* line 256
NeedsToken(tk, now) ==
    \/ tk.accessToken = None
    \/ tk.tokenExpiry = None
    \/ now >= tk.tokenExpiry[1]

\* mutant: the expiry recorded without the margin
Authenticated_NoMargin(tk, started, raw) ==
    [accessToken |-> Some([requested |-> started, expiresIn |-> ExpiresIn(raw)]),
     tokenExpiry |-> Some(started + ExpiresIn(raw))]

\* lines 260-275: the token of the registry's answer, and its expiry
\* counted from the `now` of line 253
Authenticated(tk, started, raw) ==
    [accessToken |-> Some([requested |-> started, expiresIn |-> ExpiresIn(raw)]),
     tokenExpiry |-> Some(started + ExpiresIn(raw) - FiveMinutes)]

\* lines 345-349: a 401 clears the token
handleDVLAError(tk, status) == IF status = 401 THEN NoToken ELSE tk

\* lines 252-256, 283-285
EnsureValidToken ==
    /\ enquiry.pc = "idle"
    /\ enquiry' = [enquiry EXCEPT
           !.pc = IF NeedsToken(token, time) THEN "authenticating" ELSE "ready",
           !.started = time, !.authenticated = FALSE, !.status = 0]
    /\ UNCHANGED <<clock, engineVars, processVars, time, token, bulk>>

\* lines 258-278: the registry answers the authentication
Authenticate(raw) ==
    /\ enquiry.pc = "authenticating"
    /\ token' = Authenticated(token, enquiry.started, raw)
    /\ enquiry' = [enquiry EXCEPT !.pc = "ready", !.authenticated = TRUE]
    /\ UNCHANGED <<clock, engineVars, processVars, time, bulk>>

\* lines 279-282: the authentication fails, checkLicence throws
AuthenticateFails(status) ==
    /\ enquiry.pc = "authenticating"
    /\ token' = handleDVLAError(token, status)
    /\ enquiry' = [enquiry EXCEPT !.pc = "idle", !.status = status]
    /\ UNCHANGED <<clock, engineVars, processVars, time, bulk>>

\* lines 299-314: the enquiry is sent with this.accessToken
Post ==
    /\ enquiry.pc = "ready"
    /\ enquiry' = [enquiry EXCEPT !.pc = "waiting", !.sentWith = token]
    /\ UNCHANGED <<clock, engineVars, processVars, time, token, bulk>>

\* lines 316-321: the registry answers the enquiry
Answer(status) ==
    /\ enquiry.pc = "waiting"
    /\ token' = IF status = 200 THEN token ELSE handleDVLAError(token, status)
    /\ enquiry' = [enquiry EXCEPT !.pc = "idle", !.status = status]
    /\ UNCHANGED <<clock, engineVars, processVars, time, bulk>>

MaxElapsed == 5

\* two and a half minutes pass
TickClient ==
    /\ time < 150 * MaxElapsed
    /\ time' = time + 150
    /\ UNCHANGED <<clock, engineVars, processVars, token, enquiry, bulk>>

\* expiresIn of the registry's answer: none, 4 minutes, 7.5 minutes
Lifetimes == {0, 240, 450}

InitClient == StartProcess(None)

NextClient ==
    \/ EnsureValidToken
    \/ \E raw \in Lifetimes : Authenticate(raw)
    \/ \E status \in {401, 500} : AuthenticateFails(status)
    \/ Post
    \/ \E status \in {200, 401, 500} : Answer(status)
    \/ TickClient

SpecClient == InitClient /\ [][NextClient]_vars

\* the cached token is missing or past its recorded expiry
Stale ==
    \/ token.accessToken = None
    \/ token.tokenExpiry = None
    \/ time >= token.tokenExpiry[1]

\* a checkLicence call begins
Begins == enquiry.pc = "idle" /\ enquiry'.pc # "idle"

\* a call authenticates exactly when the cached token is stale, and
\* otherwise goes on with the cached token
AuthenticatesWhenStale ==
    Begins => /\ enquiry'.pc = "authenticating" <=> Stale
              /\ enquiry'.pc = "ready" <=> ~Stale
              /\ token' = token

\* a 401 answer, to the authentication or to the enquiry, clears the
\* token and its expiry, and no other answer touches them
ClearsOn401 ==
    enquiry.pc \in {"authenticating", "waiting"} /\ enquiry'.pc = "idle" =>
        IF enquiry'.status = 401 THEN token' = NoToken ELSE token' = token

\* the call after a 401 authenticates
AuthenticatesAfter401 ==
    Begins /\ enquiry.status = 401 => enquiry'.pc = "authenticating"

\* the recorded expiry is the time of the authentication plus the
\* lifetime of the token minus five minutes
RecordedExpiry ==
    token.accessToken # None =>
        token.tokenExpiry
            = Some(token.accessToken[1].requested
                       + token.accessToken[1].expiresIn - 300)

\* an enquiry is sent with a token, which the call has obtained itself
\* when it authenticated
SentWithToken ==
    enquiry.pc = "waiting" =>
        /\ enquiry.sentWith.accessToken # None
        /\ enquiry.authenticated =>
               enquiry.sentWith.accessToken[1].requested = enquiry.started

\* the enquiry in flight was sent with a token whose recorded expiry was
\* still ahead when the call began
SentBeforeExpiry ==
    /\ enquiry.sentWith.tokenExpiry # None
    /\ enquiry.sentWith.tokenExpiry[1] > enquiry.started

\* C29 as stated: ..., and no enquiry is ever sent with a token whose
\* recorded expiry had passed when the call started.
C29_NoExpiredTokenSent ==
    /\ [][AuthenticatesWhenStale /\ ClearsOn401 /\ AuthenticatesAfter401]_vars
    /\ [](RecordedExpiry /\ SentWithToken)
    /\ [](enquiry.pc = "waiting" => SentBeforeExpiry)

\* C29: checkLicence authenticates before it sends the enquiry exactly
\* when no token is cached or the time is at or past the recorded expiry
\* (authentication time + lifetime - 5 minutes), and reuses the cached
\* token otherwise; a 401 clears token and expiry, and the next call
\* authenticates; no enquiry is sent with a cached token whose recorded
\* expiry had passed when the call started (a token obtained in the call
\* itself is sent whatever its recorded expiry).
C29_TokenLifecycle ==
    /\ [][AuthenticatesWhenStale /\ ClearsOn401 /\ AuthenticatesAfter401]_vars
    /\ [](RecordedExpiry /\ SentWithToken)
    /\ [](enquiry.pc = "waiting" /\ ~enquiry.authenticated => SentBeforeExpiry)

\* a call begun after 12.5 minutes sends its enquiry with the one-hour
\* token of time 0, after an earlier enquiry was answered 200
C29_Witness ==
    /\ enquiry.pc = "waiting"
    /\ ~enquiry.authenticated
    /\ enquiry.started = 750
    /\ enquiry.sentWith.accessToken = Some([requested |-> 0, expiresIn |-> 3600])
    /\ enquiry.sentWith.tokenExpiry = Some(3300)

(***************************************************************************)
(* bulkCheck (driver.controller.ts lines 356-407): the checks of a list    *)
(* of driver ids, one performLicenceCheck call after the other.            *)
(***************************************************************************)

\* line 367
BulkLimit == 50

\* the ids of a request: "d1" is on file and the registry answers for it,
\* "d2" is on file and the registry fails for it, "d0" is not on file
DriverIds == {"d0", "d1", "d2"}

\* mutant: a list of 50 ids rejected as well
BulkRejected_FiftyToo(driverIds) ==
    \/ driverIds = None
    \/ Len(driverIds[1]) = 0
    \/ Len(driverIds[1]) >= BulkLimit

\* lines 362-370: no array (None), an empty one or one of more than 50
BulkRejected(driverIds) ==
    \/ driverIds = None
    \/ Len(driverIds[1]) = 0
    \/ Len(driverIds[1]) > BulkLimit

\* lines 71-77 of a call that found the driver in `row` and got the
\* registry's answer r
Checked(r, row, date) ==
    [NoCall EXCEPT
        !.rec = Some(r), !.found = row,
        !.valid = isLicenceValid(r, DayNumber(date)),
        !.out = calculateRiskLevel(r, row, DayNumber(date))]

\* performLicenceCheck (lines 42-156), the whole call for the id at a
\* position of the list: whether it returned, and the record it saved
PerformLicenceCheck(position, driverId, row, date) ==
    IF driverId = "d0" \/ row = None THEN [returned |-> FALSE, saved |-> <<>>]
    ELSE IF driverId = "d2"
    THEN [returned |-> FALSE,
          saved |-> <<FailedCheck(position,
                                  [NoCall EXCEPT !.error = "DVLA API error"],
                                  date)>>]
    ELSE [returned |-> TRUE,
          saved |-> <<SuccessCheck(position,
                         Checked(CleanResponse(DayNumber(Today)), row, date),
                         date)>>]

\* lines 356-374: the request is answered 400 or the loop begins
BulkCheck(driverIds) ==
    /\ bulk.pc = "idle"
    /\ bulk' = IF BulkRejected(driverIds)
               THEN [bulk EXCEPT !.pc = "answered", !.driverIds = driverIds,
                                 !.status = Some(400)]
               ELSE [bulk EXCEPT !.pc = "checking", !.driverIds = driverIds,
                                 !.next = Some(1)]
    /\ UNCHANGED <<clock, engineVars, processVars, clientVars>>

\* lines 376-394: the check of the next id of the list
BulkNext ==
    /\ bulk.pc = "checking"
    /\ bulk.next[1] <= Len(bulk.driverIds[1])
    /\ \E i \in {bulk.next[1]} :
       \E id \in {bulk.driverIds[1][i]} :
       \E result \in {PerformLicenceCheck(i, id, drivers, clock)} :
           /\ checks' = checks \o result.saved
           /\ bulk' = [bulk EXCEPT
                  !.next = Some(i + 1),
                  !.successful = IF result.returned
                                 THEN Append(@, [position |-> i, driverId |-> id])
                                 ELSE @,
                  !.failed = IF result.returned THEN @
                             ELSE Append(@, [position |-> i, driverId |-> id])]
           /\ drivers' = IF result.returned
                         THEN Some([drivers[1] EXCEPT
                                  !.lastLicenceCheck = Now,
                                  !.licenceStatus = "valid",
                                  !.riskLevel = result.saved[1].riskLevel])
                         ELSE drivers
    /\ UNCHANGED <<clock, engineVars, calls, clientVars>>

\* lines 396-407: the answer after the last id
BulkAnswer ==
    /\ bulk.pc = "checking"
    /\ bulk.next[1] > Len(bulk.driverIds[1])
    /\ bulk' = [bulk EXCEPT
           !.pc = "answered", !.status = Some(200),
           !.summary = Some([total |-> Len(bulk.driverIds[1]),
                             successful |-> Len(bulk.successful),
                             failed |-> Len(bulk.failed)])]
    /\ UNCHANGED <<clock, engineVars, processVars, clientVars>>

MaxBulk == 3

\* a list of n ids: d1, d2, d0, d1, ...
LongList(n) ==
    [i \in 1..n |-> IF i % 3 = 1 THEN "d1" ELSE IF i % 3 = 2 THEN "d2" ELSE "d0"]

\* no list, the lists of up to MaxBulk ids, one of 50 and one of 51
BulkLists ==
    {None} \cup {Some(ids) : ids \in SeqsUpTo(DriverIds, MaxBulk)}
           \cup {Some(LongList(BulkLimit)), Some(LongList(BulkLimit + 1))}

InitBulk == StartProcess(Some(PlainDriver(DayNumber(Today))))

NextBulk ==
    \/ \E driverIds \in BulkLists : BulkCheck(driverIds)
    \/ BulkNext
    \/ BulkAnswer

SpecBulk == InitBulk /\ [][NextBulk]_vars

\* the positions of the list that a result list names
PositionsIn(list) == {list[i].position : i \in 1..Len(list)}

\* the list is missing, empty or longer than 50
NotAList ==
    \/ bulk.driverIds = None
    \/ Len(bulk.driverIds[1]) = 0
    \/ Len(bulk.driverIds[1]) > 50

\* the positions checked so far, in the order of the list
CheckedInOrder ==
    LET done == bulk.next[1] - 1
        ids == bulk.driverIds[1]
    IN  /\ PositionsIn(bulk.successful) \cup PositionsIn(bulk.failed) = 1..done
        /\ PositionsIn(bulk.successful) \cap PositionsIn(bulk.failed) = {}
        /\ Len(bulk.successful) + Len(bulk.failed) = done
        /\ \A i \in 1..Len(bulk.successful) :
               ids[bulk.successful[i].position] = bulk.successful[i].driverId
        /\ \A i \in 1..Len(bulk.failed) :
               ids[bulk.failed[i].position] = bulk.failed[i].driverId
        /\ \A i, j \in 1..Len(checks) :
               i < j => checks[i].call < checks[j].call
        /\ {checks[i].call : i \in 1..Len(checks)}
               = {p \in 1..done : ids[p] # "d0"}

\* C30: a request with a list of 1 to 50 ids checks the ids one at a time
\* in list order, goes on after a failed check, and answers 200 with every
\* position of the list in exactly one of successful and failed, so that
\* successful + failed = total; a request with no list, an empty one or
\* one of more than 50 ids is answered 400 and no check is made.
C30_BulkCheck ==
    /\ bulk.pc = "checking" => ~NotAList /\ CheckedInOrder
    /\ bulk.pc = "answered" =>
           IF NotAList
           THEN /\ bulk.status = Some(400)
                /\ checks = <<>> /\ bulk.successful = <<>> /\ bulk.failed = <<>>
                /\ bulk.next = None
           ELSE /\ bulk.status = Some(200)
                /\ bulk.next[1] = Len(bulk.driverIds[1]) + 1
                /\ CheckedInOrder
                /\ bulk.summary[1].total = Len(bulk.driverIds[1])
                /\ bulk.summary[1].successful = Len(bulk.successful)
                /\ bulk.summary[1].failed = Len(bulk.failed)
                /\ bulk.summary[1].successful + bulk.summary[1].failed
                       = bulk.summary[1].total

\* a list of 50 ids answered: 17 successful, 33 failed
C30_Witness ==
    /\ bulk.pc = "answered"
    /\ bulk.status = Some(200)
    /\ Len(bulk.driverIds[1]) = 50
    /\ bulk.summary = Some([total |-> 50, successful |-> 17, failed |-> 33])
    /\ Len(checks) = 34

====
